---- MODULE Spec2Model ----
(***************************************************************************)
(* A model of the habit tracker's domain engine: the profile registry,    *)
(* the habit service (create / list / archive / complete / due), the XP   *)
(* ledger and the period-key codec, over the five tables of the store.    *)
(*                                                                         *)
(* Strings are sequences of one-character strings, so that trimming,      *)
(* lower-casing and key formatting are computed, not assumed.             *)
(* A NULL column / Python None is the number 0 (row ids start at 1).      *)
(***************************************************************************)
EXTENDS Integers, Sequences, FiniteSets, TLC

VARIABLES profiles, app_state, habits, completions, xp_events, xp_service,
          pc, loc, res, calls

store == <<profiles, app_state, habits, completions, xp_events>>
vars == <<profiles, app_state, habits, completions, xp_events, xp_service,
          pc, loc, res, calls>>

-----------------------------------------------------------------------------
(* Bounds of the model.                                                    *)

\* most rows the habit table is allowed to grow to
MaxHabits == 2
\* most rows the completion table is allowed to grow to
MaxCompletions == 2
\* largest profile id the registry is allowed to hand out
MaxProfileId == 2
\* most calls one run of the single caller makes
MaxCalls == 6
\* most calls one run of the two interleaved callers makes, together
MaxConcCalls == 5
\* most calls one run of the single caller makes when it draws from the
\* narrow inputs (two usernames, one habit name, one instant per ISO week)
MaxOwnCalls == 8
\* most calls one run makes when the XP ledger is called directly
MaxAwardCalls == 5
\* most calls two interleaved callers make, together, when the XP ledger is
\* called directly
MaxAwardConcCalls == 6

\* XP totals 0..MaxSmallXP are tried one by one, MaxLevelCalls calls a run
MaxSmallXP == 60

MaxLevelCalls == 2

\* calls of two callers creating habits at one store
MaxCreateConcCalls == 5

\* completions handed to one call of longest_streak_for_habit
MaxKeys == 3

None == 0

\* the single caller of the sequential specification, and the two callers
\* (two sessions on one database file) of the interleaved one
Caller == "c1"
Callers == {"c1", "c2"}

-----------------------------------------------------------------------------
(* Strings.                                                                *)

Whitespace == {" ", "\t", "\n"}

RECURSIVE LStrip(_)
LStrip(s) ==
    IF s # <<>> /\ Head(s) \in Whitespace THEN LStrip(Tail(s)) ELSE s

RECURSIVE RStrip(_)
RStrip(s) ==
    IF s # <<>> /\ s[Len(s)] \in Whitespace
    THEN RStrip(SubSeq(s, 1, Len(s) - 1))
    ELSE s

\* lstrip() where strip() was meant
Strip_left_only(s) == LStrip(s)

\* str.strip()
Strip(s) == RStrip(LStrip(s))

LowerChar(c) ==
    CASE c = "A" -> "a"
      [] c = "B" -> "b"
      [] c = "R" -> "r"
      [] OTHER -> c

\* the username used as typed
Lower_as_typed(s) == s

\* str.lower()
Lower(s) == [i \in 1..Len(s) |-> LowerChar(s[i])]

DigitChars == <<"0", "1", "2", "3", "4", "5", "6", "7", "8", "9">>

RECURSIVE Decimal(_)
\* the decimal digits of n >= 0, no padding
Decimal(n) ==
    IF n < 10 THEN <<DigitChars[n + 1]>>
    ELSE Decimal(n \div 10) \o <<DigitChars[(n % 10) + 1]>>

\* the number written without padding
ZeroPad_none(s, w) == s

RECURSIVE ZeroPad(_, _)
\* format(n, '0<w>d'): at least w digits, zero-filled on the left
ZeroPad(s, w) == IF Len(s) >= w THEN s ELSE ZeroPad(<<"0">> \o s, w)

-----------------------------------------------------------------------------
(* Calendar: datetime.date as the engine uses it.  A timestamp is a       *)
(* record [year, month, day, hour].                                        *)

IsLeap(y) == (y % 4 = 0) /\ ((y % 100 # 0) \/ (y % 400 = 0))

DaysInMonth(y, m) ==
    IF m = 2 THEN (IF IsLeap(y) THEN 29 ELSE 28)
    ELSE IF m \in {4, 6, 9, 11} THEN 30 ELSE 31

DaysBeforeYear(y) ==
    LET y1 == y - 1
    IN  y1 * 365 + (y1 \div 4) - (y1 \div 100) + (y1 \div 400)

RECURSIVE DaysBeforeMonth(_, _)
DaysBeforeMonth(y, m) ==
    IF m = 1 THEN 0 ELSE DaysBeforeMonth(y, m - 1) + DaysInMonth(y, m - 1)

\* date.toordinal()
ToOrdinal(y, m, d) == DaysBeforeYear(y) + DaysBeforeMonth(y, m) + d

\* ordinal of the Monday that starts ISO week 1 of year y
IsoWeek1Monday(y) ==
    LET firstday == ToOrdinal(y, 1, 1)
        firstweekday == (firstday + 6) % 7
        week1monday == firstday - firstweekday
    IN  IF firstweekday > 3 THEN week1monday + 7 ELSE week1monday

\* floor division, as Python's divmod
FloorDiv(a, b) == IF a >= 0 THEN a \div b ELSE -(((-a) + b - 1) \div b)

\* date.isocalendar(): <<ISO year, ISO week, ISO weekday>>
IsoCalendar(y, m, d) ==
    LET today == ToOrdinal(y, m, d)
        w0 == FloorDiv(today - IsoWeek1Monday(y), 7)
        d0 == (today - IsoWeek1Monday(y)) - 7 * w0
    IN  IF w0 < 0
        THEN LET wm == IsoWeek1Monday(y - 1)
                 w1 == FloorDiv(today - wm, 7)
             IN  <<y - 1, w1 + 1, ((today - wm) - 7 * w1) + 1>>
        ELSE IF w0 >= 52 /\ today >= IsoWeek1Monday(y + 1)
        THEN <<y + 1, 1, d0 + 1>>
        ELSE <<y, w0 + 1, d0 + 1>>

\* date.isoformat(): YYYY-MM-DD
IsoFormat(y, m, d) ==
    ZeroPad(Decimal(y), 4) \o <<"-">> \o ZeroPad(Decimal(m), 2)
        \o <<"-">> \o ZeroPad(Decimal(d), 2)

Periodicities == {"DAILY", "WEEKLY"}

\* the week key written with the calendar year of the day
compute_period_key_calendar_year(when, periodicity) ==
    IF periodicity = "DAILY"
    THEN IsoFormat(when.year, when.month, when.day)
    ELSE LET iso == IsoCalendar(when.year, when.month, when.day)
         IN  Decimal(when.year) \o <<"-", "W">> \o ZeroPad(Decimal(iso[2]), 2)

\* the period key of a timestamp: YYYY-MM-DD for DAILY, YYYY-Www for WEEKLY
compute_period_key(when, periodicity) ==
    IF periodicity = "DAILY"
    THEN IsoFormat(when.year, when.month, when.day)
    ELSE LET iso == IsoCalendar(when.year, when.month, when.day)
         IN  Decimal(iso[1]) \o <<"-", "W">> \o ZeroPad(Decimal(iso[2]), 2)

-----------------------------------------------------------------------------
(* Inputs the callers draw from.                                           *)

T(y, m, d, h) == [year |-> y, month |-> m, day |-> d, hour |-> h]

\* Sunday of 2025-W52, two instants of the Monday that opens 2026-W01 (a
\* December day of ISO year 2026), and the Thursday of the same ISO week
Timestamps ==
    {T(2025, 12, 28, 20), T(2025, 12, 29, 8), T(2025, 12, 29, 20), T(2026, 1, 1, 8)}

NoTime == T(0, 0, 0, 0)

Usernames == {<<"a">>, <<"A">>, <<"b">>}

HabitNames == {<<"r">>, <<" ", "r", "\t">>, <<"R">>, <<" ", "\t">>, <<>>}

\* ids a caller may pass: every id a row can have, and one that no row has
HabitIds == 1..(MaxHabits + 1)

-----------------------------------------------------------------------------
(* The store: one set of rows per table.                                   *)

Max(S) == CHOOSE x \in S : \A y \in S : y <= x

\* INTEGER PRIMARY KEY without AUTOINCREMENT: the next rowid is one more than
\* the largest rowid in the table (1 for an empty table)
NextId(rows) == IF rows = {} THEN 1 ELSE Max({r.id : r \in rows}) + 1

\* session.get(Model, id): the set holding the row, or {} for None
Get(rows, id) == {r \in rows : r.id = id}

\* datetime.now(), the default of every created_at: a clock that never runs
\* backwards and has moved on between two calls, so a reading later than
\* every created_at in the store
Now ==
    Max({0} \cup {r.created_at : r \in profiles} \cup {h.created_at : h \in habits}) + 1

Profile(id, username) == [id |-> id, username |-> username, created_at |-> Now]

AppState(active_profile_id) == [id |-> 1, active_profile_id |-> active_profile_id]

\* the row built with the default cadence, the requested one dropped
Habit_daily(id, profile_id, name, periodicity) ==
    [id |-> id, profile_id |-> profile_id, name |-> name,
     periodicity |-> "DAILY", created_at |-> Now, is_active |-> TRUE]

Habit(id, profile_id, name, periodicity) ==
    [id |-> id, profile_id |-> profile_id, name |-> name,
     periodicity |-> periodicity, created_at |-> Now, is_active |-> TRUE]

Completion(id, habit_id, completed_at, period_key) ==
    [id |-> id, habit_id |-> habit_id, completed_at |-> completed_at,
     period_key |-> period_key]

XPEvent(id, profile_id, amount, reason, habit_id, completion_id) ==
    [id |-> id, profile_id |-> profile_id, amount |-> amount, reason |-> reason,
     habit_id |-> habit_id, completion_id |-> completion_id]

\* the table declared without the constraint
unique_habit_period_absent(rows, c) == TRUE

\* the constraint declared on the timestamp column instead of the period key
unique_habit_period_on_completed_at(rows, c) ==
    \A r \in rows : ~(r.habit_id = c.habit_id /\ r.completed_at = c.completed_at)

\* UniqueConstraint('habit_id', 'period_key'): does the table accept row c?
unique_habit_period(rows, c) ==
    \A r \in rows : ~(r.habit_id = c.habit_id /\ r.period_key = c.period_key)

-----------------------------------------------------------------------------
(* What a call reports: the operation, its arguments, the exception it     *)
(* raised ("ok" when it returned) and the value it returned.               *)

NoCall ==
    [caller |-> "", op |-> "", err |-> "", id |-> 0, name |-> <<>>, periodicity |-> "",
     when |-> NoTime, active_only |-> FALSE, profile_id |-> 0, habit_id |-> 0,
     pk |-> <<>>, arg |-> <<>>, extended |-> FALSE, ret |-> <<>>]

NoLoc ==
    [habit_id |-> 0, when |-> NoTime, period_key |-> <<>>, profile_id |-> 0,
     completion_id |-> 0, name |-> <<>>, periodicity |-> ""]

\* the call of caller p ended with report r
Report(p, r) == res' = [r EXCEPT !.caller = p]

\* caller p, in no call, starts one
Called(p) ==
    /\ pc[p] = "idle"
    /\ calls' = calls + 1

Init ==
    /\ profiles = {}
    /\ app_state = {}
    /\ habits = {}
    /\ completions = {}
    /\ xp_events = {}
    /\ xp_service \in BOOLEAN
    /\ pc = [p \in Callers |-> "idle"]
    /\ loc = [p \in Callers |-> NoLoc]
    /\ res = NoCall
    /\ calls = 0

-----------------------------------------------------------------------------
(* ProfileService                                                          *)

ProfileByUsername(username) == {r \in profiles : r.username = username}

create_profile(p, username) ==
    LET normalized_username == Lower(username)
        existing == ProfileByUsername(normalized_username)
        call == [NoCall EXCEPT !.op = "create_profile", !.name = username]
    IN  /\ Called(p)
        /\ IF existing # {}
           THEN /\ Report(p, [call EXCEPT !.err = "ProfileAlreadyExists"])
                /\ UNCHANGED profiles
           ELSE LET id == NextId(profiles)
                IN  /\ id <= MaxProfileId
                    /\ profiles' = profiles \cup {Profile(id, normalized_username)}
                    /\ Report(p, [call EXCEPT !.err = "ok", !.ret = <<id>>])
        /\ UNCHANGED <<app_state, habits, completions, xp_events, xp_service, pc, loc>>

\* the pointer row created when absent, and left alone when present
AppStateWritten_create_only(profile_id) ==
    IF Get(app_state, 1) = {}
    THEN app_state \cup {AppState(profile_id)}
    ELSE app_state

\* the AppState table after switch_active_profile wrote the pointer
AppStateWritten(profile_id) ==
    IF Get(app_state, 1) = {}
    THEN app_state \cup {AppState(profile_id)}
    ELSE {IF s.id = 1 THEN [s EXCEPT !.active_profile_id = profile_id] ELSE s :
            s \in app_state}

switch_active_profile(p, username) ==
    LET normalized_username == Lower(username)
        found == ProfileByUsername(normalized_username)
        call == [NoCall EXCEPT !.op = "switch_active_profile", !.name = username]
    IN  /\ Called(p)
        /\ IF found = {}
           THEN /\ Report(p, [call EXCEPT !.err = "ProfileNotFound"])
                /\ UNCHANGED app_state
           ELSE LET profile == CHOOSE r \in found : TRUE
                IN  /\ app_state' = AppStateWritten(profile.id)
                    /\ Report(p, [call EXCEPT !.err = "ok", !.ret = <<profile.id>>])
        /\ UNCHANGED <<profiles, habits, completions, xp_events, xp_service, pc, loc>>

\* the AppState table after delete_profile cleared a pointer to profile_id
AppStateCleared(profile_id) ==
    {IF s.id = 1 /\ s.active_profile_id = profile_id
     THEN [s EXCEPT !.active_profile_id = None] ELSE s : s \in app_state}

delete_profile(p, username) ==
    LET normalized_username == Lower(username)
        found == ProfileByUsername(normalized_username)
        call == [NoCall EXCEPT !.op = "delete_profile", !.name = username]
    IN  /\ Called(p)
        /\ IF found = {}
           THEN /\ Report(p, [call EXCEPT !.err = "ProfileNotFound"])
                /\ UNCHANGED <<profiles, app_state>>
           ELSE LET profile == CHOOSE r \in found : TRUE
                IN  /\ app_state' = AppStateCleared(profile.id)
                    /\ profiles' = profiles \ {profile}
                    /\ Report(p, [call EXCEPT !.err = "ok"])
        /\ UNCHANGED <<habits, completions, xp_events, xp_service, pc, loc>>

\* ProfileService.get_active_profile: the id of the active profile, or None
get_active_profile ==
    LET state == Get(app_state, 1)
    IN  IF state # {} /\ (CHOOSE s \in state : TRUE).active_profile_id # None
        THEN LET profile == Get(profiles, (CHOOSE s \in state : TRUE).active_profile_id)
             IN  IF profile = {} THEN None ELSE (CHOOSE r \in profile : TRUE).id
        ELSE None

\* the call of ProfileService.get_active_profile: it returns the profile, or
\* None (an empty result here)
get_active(p) ==
    LET profile_id == get_active_profile
        call == [NoCall EXCEPT !.op = "get_active_profile"]
    IN  /\ Called(p)
        /\ Report(p, [call EXCEPT !.err = "ok",
                 !.ret = IF profile_id = None THEN <<>> ELSE <<profile_id>>])
        /\ UNCHANGED <<store, xp_service, pc, loc>>

-----------------------------------------------------------------------------
(* HabitService                                                            *)

\* _get_active_profile trusting the pointer, the profile row not looked up
HabitService_get_active_profile_unchecked ==
    LET state == Get(app_state, 1)
    IN  IF state = {} THEN None ELSE (CHOOSE s \in state : TRUE).active_profile_id

\* _get_active_profile: the id of the active profile; None stands for
\* raising ActiveProfileRequired
HabitService_get_active_profile ==
    LET state == Get(app_state, 1)
    IN  IF state = {} \/ (CHOOSE s \in state : TRUE).active_profile_id = None
        THEN None
        ELSE LET profile == Get(profiles, (CHOOSE s \in state : TRUE).active_profile_id)
             IN  IF profile = {} THEN None ELSE (CHOOSE r \in profile : TRUE).id

\* the duplicate query with the is_active test inverted
ExistingActiveHabits_inverted_flag(profile_id, normalized_name) ==
    {h \in habits : h.profile_id = profile_id /\ h.name = normalized_name /\ ~h.is_active}

\* the duplicate query without the is_active test
ExistingActiveHabits_any_state(profile_id, normalized_name) ==
    {h \in habits : h.profile_id = profile_id /\ h.name = normalized_name}

\* the duplicate query of create_habit: active habits of the profile with that name
ExistingActiveHabits(profile_id, normalized_name) ==
    {h \in habits : h.profile_id = profile_id /\ h.name = normalized_name /\ h.is_active}

create_habit(p, name, periodicity) ==
    LET profile_id == HabitService_get_active_profile
        normalized_name == Strip(name)
        call == [NoCall EXCEPT !.op = "create_habit", !.name = name,
                               !.periodicity = periodicity]
    IN  /\ Called(p)
        /\ IF profile_id = None
           THEN /\ Report(p, [call EXCEPT !.err = "ActiveProfileRequired"])
                /\ UNCHANGED habits
           ELSE IF normalized_name = <<>>
           THEN /\ Report(p, [call EXCEPT !.err = "ValueError"])
                /\ UNCHANGED habits
           ELSE IF ExistingActiveHabits(profile_id, normalized_name) # {}
           THEN /\ Report(p, [call EXCEPT !.err = "HabitAlreadyExists"])
                /\ UNCHANGED habits
           ELSE LET id == NextId(habits)
                IN  /\ Cardinality(habits) < MaxHabits
                    /\ habits' = habits \cup
                                   {Habit(id, profile_id, normalized_name, periodicity)}
                    /\ Report(p, [call EXCEPT !.err = "ok", !.ret = <<id>>])
        /\ UNCHANGED <<profiles, app_state, completions, xp_events, xp_service, pc, loc>>

RECURSIVE OrderByCreatedAt(_)
\* ORDER BY created_at: the ids of the rows, oldest first
OrderByCreatedAt(rows) ==
    IF rows = {} THEN <<>>
    ELSE LET first == CHOOSE r \in rows : \A q \in rows :
                          r.created_at < q.created_at
                          \/ (r.created_at = q.created_at /\ r.id <= q.id)
         IN  <<first.id>> \o OrderByCreatedAt(rows \ {first})

\* the select without its profile_id test
ListedHabits_all_profiles(profile_id, active_only, periodicity) ==
    {h \in habits : /\ (active_only => h.is_active)
                    /\ (periodicity # "" => h.periodicity = periodicity)}

\* the rows list_habits selects; periodicity "" is the None of "no filter"
ListedHabits(profile_id, active_only, periodicity) ==
    {h \in habits : /\ h.profile_id = profile_id
                    /\ (active_only => h.is_active)
                    /\ (periodicity # "" => h.periodicity = periodicity)}

list_habits(p, active_only, periodicity) ==
    LET profile_id == HabitService_get_active_profile
        call == [NoCall EXCEPT !.op = "list_habits", !.active_only = active_only,
                               !.periodicity = periodicity]
    IN  /\ Called(p)
        /\ IF profile_id = None
           THEN Report(p, [call EXCEPT !.err = "ActiveProfileRequired"])
           ELSE Report(p, [call EXCEPT !.err = "ok",
                    !.ret = OrderByCreatedAt(
                                ListedHabits(profile_id, active_only, periodicity))])
        /\ UNCHANGED <<store, xp_service, pc, loc>>

\* archive_habit also stamping the row with the time of the call
Archived_restamped(habit_id) ==
    {IF h.id = habit_id THEN [h EXCEPT !.is_active = FALSE, !.created_at = Now] ELSE h :
        h \in habits}

\* archive_habit clearing the flag on every row
Archived_all_rows(habit_id) == {[h EXCEPT !.is_active = FALSE] : h \in habits}

\* archive_habit toggling the flag instead of clearing it
Archived_toggle(habit_id) ==
    {IF h.id = habit_id THEN [h EXCEPT !.is_active = ~h.is_active] ELSE h : h \in habits}

\* the habit table after archive_habit set is_active = False on one row
Archived(habit_id) ==
    {IF h.id = habit_id THEN [h EXCEPT !.is_active = FALSE] ELSE h : h \in habits}

\* archive_habit writing the flag before it compares the owner
archive_habit_flag_first(p, habit_id) ==
    LET profile_id == HabitService_get_active_profile
        habit == Get(habits, habit_id)
        call == [NoCall EXCEPT !.op = "archive_habit", !.id = habit_id]
    IN  /\ Called(p)
        /\ IF profile_id = None
           THEN /\ Report(p, [call EXCEPT !.err = "ActiveProfileRequired"])
                /\ UNCHANGED habits
           ELSE /\ habits' = Archived(habit_id)
                /\ IF habit = {} \/ (CHOOSE h \in habit : TRUE).profile_id # profile_id
                   THEN Report(p, [call EXCEPT !.err = "HabitNotFound"])
                   ELSE Report(p, [call EXCEPT !.err = "ok", !.ret = <<habit_id>>])
        /\ UNCHANGED <<profiles, app_state, completions, xp_events, xp_service, pc, loc>>

archive_habit(p, habit_id) ==
    LET profile_id == HabitService_get_active_profile
        habit == Get(habits, habit_id)
        call == [NoCall EXCEPT !.op = "archive_habit", !.id = habit_id]
    IN  /\ Called(p)
        /\ IF profile_id = None
           THEN /\ Report(p, [call EXCEPT !.err = "ActiveProfileRequired"])
                /\ UNCHANGED habits
           ELSE IF habit = {} \/ (CHOOSE h \in habit : TRUE).profile_id # profile_id
           THEN /\ Report(p, [call EXCEPT !.err = "HabitNotFound"])
                /\ UNCHANGED habits
           ELSE /\ habits' = Archived(habit_id)
                /\ Report(p, [call EXCEPT !.err = "ok", !.ret = <<habit_id>>])
        /\ UNCHANGED <<profiles, app_state, completions, xp_events, xp_service, pc, loc>>

\* the existence query without the period key
ExistingCompletions_any_period(habit_id, period_key) ==
    {c \in completions : c.habit_id = habit_id}

\* the existence query filtering on the wrong column (Completion.id)
ExistingCompletions_wrong_column(habit_id, period_key) ==
    {c \in completions : c.id = habit_id /\ c.period_key = period_key}

\* the existence query of complete_habit and get_due_habits
ExistingCompletions(habit_id, period_key) ==
    {c \in completions : c.habit_id = habit_id /\ c.period_key = period_key}

\* complete_habit with the archived test after the existence query
CompleteChecks_archived_last(habit_id, when) ==
    LET profile_id == HabitService_get_active_profile
        habit == Get(habits, habit_id)
        out == [err |-> "ok", profile_id |-> profile_id, period_key |-> <<>>]
    IN  IF profile_id = None
        THEN [out EXCEPT !.err = "ActiveProfileRequired"]
        ELSE IF habit = {} \/ (CHOOSE h \in habit : TRUE).profile_id # profile_id
        THEN [out EXCEPT !.err = "HabitNotFound"]
        ELSE LET period_key ==
                     compute_period_key(when, (CHOOSE h \in habit : TRUE).periodicity)
             IN  IF ExistingCompletions(habit_id, period_key) # {}
                 THEN [out EXCEPT !.err = "HabitAlreadyCompletedForPeriod",
                                  !.period_key = period_key]
                 ELSE IF ~(CHOOSE h \in habit : TRUE).is_active
                 THEN [out EXCEPT !.err = "HabitArchived"]
                 ELSE [out EXCEPT !.period_key = period_key]

\* complete_habit looking the habit up by id alone, its owner not compared
CompleteChecks_any_owner(habit_id, when) ==
    LET profile_id == HabitService_get_active_profile
        habit == Get(habits, habit_id)
        out == [err |-> "ok", profile_id |-> profile_id, period_key |-> <<>>]
    IN  IF profile_id = None
        THEN [out EXCEPT !.err = "ActiveProfileRequired"]
        ELSE IF habit = {}
        THEN [out EXCEPT !.err = "HabitNotFound"]
        ELSE IF ~(CHOOSE h \in habit : TRUE).is_active
        THEN [out EXCEPT !.err = "HabitArchived"]
        ELSE LET period_key ==
                     compute_period_key(when, (CHOOSE h \in habit : TRUE).periodicity)
             IN  IF ExistingCompletions(habit_id, period_key) # {}
                 THEN [out EXCEPT !.err = "HabitAlreadyCompletedForPeriod",
                                  !.period_key = period_key]
                 ELSE [out EXCEPT !.period_key = period_key]

\* complete_habit up to its existence check: the exception raised ("ok" when
\* the call goes on to insert), with the profile and the period key it computed
CompleteChecks(habit_id, when) ==
    LET profile_id == HabitService_get_active_profile
        habit == Get(habits, habit_id)
        out == [err |-> "ok", profile_id |-> profile_id, period_key |-> <<>>]
    IN  IF profile_id = None
        THEN [out EXCEPT !.err = "ActiveProfileRequired"]
        ELSE IF habit = {} \/ (CHOOSE h \in habit : TRUE).profile_id # profile_id
        THEN [out EXCEPT !.err = "HabitNotFound"]
        ELSE IF ~(CHOOSE h \in habit : TRUE).is_active
        THEN [out EXCEPT !.err = "HabitArchived"]
        ELSE LET period_key ==
                     compute_period_key(when, (CHOOSE h \in habit : TRUE).periodicity)
             IN  IF ExistingCompletions(habit_id, period_key) # {}
                 THEN [out EXCEPT !.err = "HabitAlreadyCompletedForPeriod",
                                  !.period_key = period_key]
                 ELSE [out EXCEPT !.period_key = period_key]

-----------------------------------------------------------------------------
(* XPService                                                               *)

\* the XPEvent table declared without the constraint
unique_completion_id_absent(rows, e) == TRUE

\* completion_id of XPEvent is unique when present: does the table accept
\* row e?  (NULLs never collide)
unique_completion_id(rows, e) ==
    e.completion_id = None \/ \A r \in rows : r.completion_id # e.completion_id

\* the select looking for an event of the same habit instead
ExistingXPEvents_by_habit(events, habit_id, completion_id) ==
    {e \in events : e.habit_id = habit_id /\ e.completion_id = completion_id}

\* the select of award_habit_completion: the events referencing the completion
ExistingXPEvents(events, habit_id, completion_id) ==
    {e \in events : e.completion_id = completion_id}

\* the row built without its reference to the completion
NewXPEvent_no_completion(events, profile_id, habit_id, completion_id) ==
    XPEvent(NextId(events), profile_id, 1, "HABIT_COMPLETION", habit_id, None)

\* the row award_habit_completion builds
NewXPEvent(events, profile_id, habit_id, completion_id) ==
    XPEvent(NextId(events), profile_id, 1, "HABIT_COMPLETION", habit_id, completion_id)

\* award_habit_completion finds no event and its insert is refused by the
\* table: the IntegrityError leaves the method
AwardRefused(events, profile_id, habit_id, completion_id) ==
    /\ ExistingXPEvents(events, habit_id, completion_id) = {}
    /\ ~unique_completion_id(events,
                             NewXPEvent(events, profile_id, habit_id, completion_id))

\* the new event written over the rows already there
award_habit_completion_overwrite(events, profile_id, habit_id, completion_id) ==
    IF ExistingXPEvents(events, habit_id, completion_id) # {}
       \/ AwardRefused(events, profile_id, habit_id, completion_id)
    THEN events
    ELSE {NewXPEvent({}, profile_id, habit_id, completion_id)}

\* the XPEvent table after award_habit_completion: unchanged when an event
\* already references the completion (or the insert is refused), else one
\* row more
award_habit_completion(events, profile_id, habit_id, completion_id) ==
    IF ExistingXPEvents(events, habit_id, completion_id) # {}
       \/ AwardRefused(events, profile_id, habit_id, completion_id)
    THEN events
    ELSE events \cup {NewXPEvent(events, profile_id, habit_id, completion_id)}

RECURSIVE SumAmount(_)
SumAmount(events) ==
    IF events = {} THEN 0
    ELSE LET e == CHOOSE x \in events : TRUE
         IN  e.amount + SumAmount(events \ {e})

\* SELECT sum(amount) without the WHERE clause
get_total_xp_all_profiles(profile_id) == SumAmount(xp_events)

\* SELECT sum(amount) WHERE profile_id = ...; 0 when the sum is NULL
get_total_xp(profile_id) ==
    SumAmount({e \in xp_events : e.profile_id = profile_id})

\* Python's int has no width: a natural number is the sequence of its
\* decimal digits, most significant first, without a leading zero
RECURSIVE Digits(_)
Digits(n) == IF n < 10 THEN <<n>> ELSE Digits(n \div 10) \o <<n % 10>>

RECURSIVE Value(_)
\* the number a digit sequence writes, for one small enough to count with
Value(d) == IF Len(d) = 1 THEN d[1] ELSE 10 * Value(SubSeq(d, 1, Len(d) - 1)) + d[Len(d)]

\* a < b
BigLess(a, b) ==
    \/ Len(a) < Len(b)
    \/ /\ Len(a) = Len(b)
       /\ \E i \in 1..Len(a) :
            a[i] < b[i] /\ \A j \in 1..(i - 1) : a[j] = b[j]

RECURSIVE BigSucc(_)
\* d + 1
BigSucc(d) ==
    IF d[Len(d)] < 9 THEN [d EXCEPT ![Len(d)] = d[Len(d)] + 1]
    ELSE IF Len(d) = 1 THEN <<1, 0>>
    ELSE BigSucc(SubSeq(d, 1, Len(d) - 1)) \o <<0>>

\* d // 10 and d % 10
BigDiv10(d) == IF Len(d) = 1 THEN <<0>> ELSE SubSeq(d, 1, Len(d) - 1)

BigMod10(d) == d[Len(d)]

\* 2^50, 2^51 and 2^52: where the spacing of the doubles becomes 1/4, 1/2, 1
Pow2_50 == <<1, 1, 2, 5, 8, 9, 9, 9, 0, 6, 8, 4, 2, 6, 2, 4>>

Pow2_51 == <<2, 2, 5, 1, 7, 9, 9, 8, 1, 3, 6, 8, 5, 2, 4, 8>>

Pow2_52 == <<4, 5, 0, 3, 5, 9, 9, 6, 2, 7, 3, 7, 0, 4, 9, 6>>

\* floor(total_xp / 10): `/` is the true division of two ints, the double
\* nearest to the quotient q + r/10 (ties to the even mantissa), and floor
\* takes its integer part.  Below 2^50 the doubles are at most 1/8 apart and
\* the integer part is q; from there on the nearest double can be q + 1.
\* (For total_xp < 10 * 2^53.)
FloorTrueDiv10(d) ==
    LET q == BigDiv10(d)
        r == BigMod10(d)
        rounds_up ==
            IF BigLess(q, Pow2_50) THEN FALSE
            ELSE IF BigLess(q, Pow2_51) THEN r >= 9
            ELSE IF BigLess(q, Pow2_52) THEN r >= 8
            ELSE r > 5 \/ (r = 5 /\ q[Len(q)] % 2 = 1)
    IN  IF rounds_up THEN BigSucc(q) ELSE q

compute_level(total_xp) == BigSucc(FloorTrueDiv10(total_xp))

compute_level_progress(total_xp) ==
    <<compute_level(total_xp), BigMod10(total_xp), 10 - BigMod10(total_xp)>>

XPService_get_active_profile ==
    LET state == Get(app_state, 1)
    IN  IF state = {} \/ (CHOOSE s \in state : TRUE).active_profile_id = None
        THEN None
        ELSE LET profile == Get(profiles, (CHOOSE s \in state : TRUE).active_profile_id)
             IN  IF profile = {} THEN None ELSE (CHOOSE r \in profile : TRUE).id

get_total_xp_for_active_profile(p) ==
    LET profile_id == XPService_get_active_profile
        call == [NoCall EXCEPT !.op = "get_total_xp_for_active_profile"]
    IN  /\ Called(p)
        /\ IF profile_id = None
           THEN Report(p, [call EXCEPT !.err = "ActiveProfileRequired"])
           ELSE Report(p, [call EXCEPT !.err = "ok", !.ret = <<get_total_xp(profile_id)>>])
        /\ UNCHANGED <<store, xp_service, pc, loc>>

get_level_progress_for_active_profile(p) ==
    LET profile_id == XPService_get_active_profile
        call == [NoCall EXCEPT !.op = "get_level_progress_for_active_profile"]
    IN  /\ Called(p)
        /\ IF profile_id = None
           THEN Report(p, [call EXCEPT !.err = "ActiveProfileRequired"])
           ELSE LET progress == compute_level_progress(Digits(get_total_xp(profile_id)))
                IN  Report(p, [call EXCEPT !.err = "ok",
                        !.ret = <<Value(progress[1]), progress[2], progress[3]>>])
        /\ UNCHANGED <<store, xp_service, pc, loc>>

\* a direct call of XPService.award_habit_completion, run to its end: it
\* returns the event that references the completion
award(p, profile_id, habit_id, completion_id) ==
    LET existing == ExistingXPEvents(xp_events, habit_id, completion_id)
        xp_event == NewXPEvent(xp_events, profile_id, habit_id, completion_id)
        call == [NoCall EXCEPT !.op = "award_habit_completion", !.id = completion_id,
                               !.profile_id = profile_id, !.habit_id = habit_id]
    IN  /\ Called(p)
        /\ xp_events' = award_habit_completion(xp_events, profile_id, habit_id,
                                               completion_id)
        /\ IF existing # {}
           THEN \* .first(): the row with the least rowid
                Report(p, [call EXCEPT !.err = "ok",
                    !.ret = <<(CHOOSE e \in existing :
                                 \A x \in existing : e.id <= x.id).id>>])
           ELSE IF AwardRefused(xp_events, profile_id, habit_id, completion_id)
           THEN Report(p, [call EXCEPT !.err = "IntegrityError"])
           ELSE Report(p, [call EXCEPT !.err = "ok", !.ret = <<xp_event.id>>])
        /\ UNCHANGED <<profiles, app_state, habits, completions, xp_service, pc, loc>>

\* a direct call of XPService.get_total_xp
get_total_xp_of(p, profile_id) ==
    /\ Called(p)
    /\ Report(p, [NoCall EXCEPT !.op = "get_total_xp", !.profile_id = profile_id,
                                !.err = "ok", !.ret = <<get_total_xp(profile_id)>>])
    /\ UNCHANGED <<store, xp_service, pc, loc>>

\* a direct call of XPService.compute_level_progress
level_progress(p, total_xp) ==
    /\ Called(p)
    /\ Report(p, [NoCall EXCEPT !.op = "compute_level_progress", !.arg = total_xp,
                                !.err = "ok", !.ret = compute_level_progress(total_xp)])
    /\ UNCHANGED <<store, xp_service, pc, loc>>

-----------------------------------------------------------------------------
(* HabitService.complete_habit and get_due_habits                          *)

\* the whole handler, run by one caller with nobody else at the store
complete_habit(p, habit_id, when) ==
    LET chk == CompleteChecks(habit_id, when)
        call == [NoCall EXCEPT !.op = "complete_habit", !.id = habit_id,
                               !.when = when, !.pk = chk.period_key]
        completion == Completion(NextId(completions), habit_id, when, chk.period_key)
    IN  /\ Called(p)
        /\ IF chk.err # "ok"
           THEN /\ Report(p, [call EXCEPT !.err = chk.err])
                /\ UNCHANGED <<completions, xp_events>>
           ELSE /\ Cardinality(completions) < MaxCompletions
                /\ IF ~unique_habit_period(completions, completion)
                   THEN /\ Report(p, [call EXCEPT !.err = "IntegrityError"])
                        /\ UNCHANGED <<completions, xp_events>>
                   ELSE /\ completions' = completions \cup {completion}
                        /\ xp_events' =
                             IF xp_service
                             THEN award_habit_completion(xp_events, chk.profile_id,
                                                         habit_id, completion.id)
                             ELSE xp_events
                        /\ IF xp_service /\ AwardRefused(xp_events, chk.profile_id,
                                                         habit_id, completion.id)
                           THEN Report(p, [call EXCEPT !.err = "IntegrityError"])
                           ELSE Report(p, [call EXCEPT !.err = "ok",
                                                      !.ret = <<completion.id>>])
        /\ UNCHANGED <<profiles, app_state, habits, xp_service, pc, loc>>

\* get_due_habits computing every key as a daily one
DueHabits_daily_key(profile_id, when) ==
    {h \in habits : /\ h.profile_id = profile_id
                    /\ h.is_active
                    /\ ExistingCompletions(h.id, compute_period_key(when, "DAILY")) = {}}

\* the active habits of the profile with no completion for the period of `when`
DueHabits(profile_id, when) ==
    {h \in habits : /\ h.profile_id = profile_id
                    /\ h.is_active
                    /\ ExistingCompletions(
                           h.id, compute_period_key(when, h.periodicity)) = {}}

get_due_habits(p, when) ==
    LET profile_id == HabitService_get_active_profile
        call == [NoCall EXCEPT !.op = "get_due_habits", !.when = when]
    IN  /\ Called(p)
        /\ IF profile_id = None
           THEN Report(p, [call EXCEPT !.err = "ActiveProfileRequired"])
           ELSE Report(p, [call EXCEPT !.err = "ok",
                    !.ret = OrderByCreatedAt(DueHabits(profile_id, when))])
        /\ UNCHANGED <<store, xp_service, pc, loc>>

-----------------------------------------------------------------------------
(* Two callers at one store.  Every commit is a step of its own: what a    *)
(* handler read before its commit may be stale when the commit happens.    *)

\* complete_habit from its entry to the existence check (service.py 213-236)
complete_begin(p, habit_id, when) ==
    LET chk == CompleteChecks(habit_id, when)
        call == [NoCall EXCEPT !.op = "complete_habit", !.id = habit_id,
                               !.when = when, !.pk = chk.period_key]
        inflight == {q \in Callers : pc[q] = "complete_insert"}
    IN  /\ Called(p)
        /\ IF chk.err # "ok"
           THEN /\ Report(p, [call EXCEPT !.err = chk.err])
                /\ UNCHANGED <<pc, loc>>
           ELSE /\ Cardinality(completions) + Cardinality(inflight) < MaxCompletions
                /\ pc' = [pc EXCEPT ![p] = "complete_insert"]
                /\ loc' = [loc EXCEPT ![p] =
                              [NoLoc EXCEPT !.habit_id = habit_id, !.when = when,
                                            !.period_key = chk.period_key,
                                            !.profile_id = chk.profile_id]]
                /\ UNCHANGED res
        /\ UNCHANGED <<store, xp_service>>

\* the insert of the Completion and its commit (service.py 239-246)
complete_insert(p) ==
    LET l == loc[p]
        call == [NoCall EXCEPT !.op = "complete_habit", !.id = l.habit_id,
                               !.when = l.when, !.pk = l.period_key]
        completion == Completion(NextId(completions), l.habit_id, l.when, l.period_key)
    IN  /\ pc[p] = "complete_insert"
        /\ UNCHANGED calls
        /\ IF ~unique_habit_period(completions, completion)
           THEN /\ Report(p, [call EXCEPT !.err = "IntegrityError"])
                /\ pc' = [pc EXCEPT ![p] = "idle"]
                /\ loc' = [loc EXCEPT ![p] = NoLoc]
                /\ UNCHANGED completions
           ELSE /\ completions' = completions \cup {completion}
                /\ IF xp_service
                   THEN /\ pc' = [pc EXCEPT ![p] = "complete_award"]
                        /\ loc' = [loc EXCEPT ![p].completion_id = completion.id]
                        /\ UNCHANGED res
                   ELSE /\ Report(p, [call EXCEPT !.err = "ok", !.ret = <<completion.id>>])
                        /\ pc' = [pc EXCEPT ![p] = "idle"]
                        /\ loc' = [loc EXCEPT ![p] = NoLoc]
        /\ UNCHANGED <<profiles, app_state, habits, xp_events, xp_service>>

\* the award made for the profile active at the time of the award, read anew
complete_award_current_profile(p) ==
    LET l == loc[p]
        profile_id == HabitService_get_active_profile
        call == [NoCall EXCEPT !.op = "complete_habit", !.id = l.habit_id,
                               !.when = l.when, !.pk = l.period_key]
    IN  /\ pc[p] = "complete_award"
        /\ UNCHANGED calls
        /\ xp_events' = award_habit_completion(xp_events, profile_id, l.habit_id,
                                               l.completion_id)
        /\ IF AwardRefused(xp_events, profile_id, l.habit_id, l.completion_id)
           THEN Report(p, [call EXCEPT !.err = "IntegrityError"])
           ELSE Report(p, [call EXCEPT !.err = "ok", !.ret = <<l.completion_id>>])
        /\ pc' = [pc EXCEPT ![p] = "idle"]
        /\ loc' = [loc EXCEPT ![p] = NoLoc]
        /\ UNCHANGED <<profiles, app_state, habits, completions, xp_service>>

\* the XP award and its commit (service.py 249-255)
complete_award(p) ==
    LET l == loc[p]
        call == [NoCall EXCEPT !.op = "complete_habit", !.id = l.habit_id,
                               !.when = l.when, !.pk = l.period_key]
    IN  /\ pc[p] = "complete_award"
        /\ UNCHANGED calls
        /\ xp_events' = award_habit_completion(xp_events, l.profile_id, l.habit_id,
                                               l.completion_id)
        /\ IF AwardRefused(xp_events, l.profile_id, l.habit_id, l.completion_id)
           THEN Report(p, [call EXCEPT !.err = "IntegrityError"])
           ELSE Report(p, [call EXCEPT !.err = "ok", !.ret = <<l.completion_id>>])
        /\ pc' = [pc EXCEPT ![p] = "idle"]
        /\ loc' = [loc EXCEPT ![p] = NoLoc]
        /\ UNCHANGED <<profiles, app_state, habits, completions, xp_service>>

\* switch_active_profile up to the profile lookup (profile/service.py 95-103)
switch_begin(p, username) ==
    LET normalized_username == Lower(username)
        found == ProfileByUsername(normalized_username)
        call == [NoCall EXCEPT !.op = "switch_active_profile", !.name = username]
    IN  /\ Called(p)
        /\ IF found = {}
           THEN /\ Report(p, [call EXCEPT !.err = "ProfileNotFound"])
                /\ UNCHANGED <<pc, loc>>
           ELSE /\ pc' = [pc EXCEPT ![p] = "switch_commit"]
                /\ loc' = [loc EXCEPT ![p] =
                              [NoLoc EXCEPT !.profile_id = (CHOOSE r \in found : TRUE).id]]
                /\ UNCHANGED res
        /\ UNCHANGED <<store, xp_service>>

\* the write of the pointer and its commit (profile/service.py 106-115)
switch_commit(p) ==
    LET call == [NoCall EXCEPT !.op = "switch_active_profile"]
    IN  /\ pc[p] = "switch_commit"
        /\ UNCHANGED calls
        /\ app_state' = AppStateWritten(loc[p].profile_id)
        /\ Report(p, [call EXCEPT !.err = "ok", !.ret = <<loc[p].profile_id>>])
        /\ pc' = [pc EXCEPT ![p] = "idle"]
        /\ loc' = [loc EXCEPT ![p] = NoLoc]
        /\ UNCHANGED <<profiles, habits, completions, xp_events, xp_service>>

\* the award inside complete_habit, from its entry to the select
\* (xp/service.py 67-73)
complete_award_begin(p) ==
    LET l == loc[p]
        call == [NoCall EXCEPT !.op = "complete_habit", !.id = l.habit_id,
                               !.when = l.when, !.pk = l.period_key]
    IN  /\ pc[p] = "complete_award"
        /\ UNCHANGED calls
        /\ IF ExistingXPEvents(xp_events, l.habit_id, l.completion_id) # {}
           THEN /\ Report(p, [call EXCEPT !.err = "ok", !.ret = <<l.completion_id>>])
                /\ pc' = [pc EXCEPT ![p] = "idle"]
                /\ loc' = [loc EXCEPT ![p] = NoLoc]
           ELSE /\ pc' = [pc EXCEPT ![p] = "complete_award_insert"]
                /\ UNCHANGED <<res, loc>>
        /\ UNCHANGED <<store, xp_service>>

\* the insert of the XPEvent inside complete_habit and its commit
\* (xp/service.py 76-85, habit/service.py 253-255)
complete_award_insert(p) ==
    LET l == loc[p]
        call == [NoCall EXCEPT !.op = "complete_habit", !.id = l.habit_id,
                               !.when = l.when, !.pk = l.period_key]
        xp_event == NewXPEvent(xp_events, l.profile_id, l.habit_id, l.completion_id)
    IN  /\ pc[p] = "complete_award_insert"
        /\ UNCHANGED calls
        /\ IF ~unique_completion_id(xp_events, xp_event)
           THEN /\ Report(p, [call EXCEPT !.err = "IntegrityError"])
                /\ UNCHANGED xp_events
           ELSE /\ xp_events' = xp_events \cup {xp_event}
                /\ Report(p, [call EXCEPT !.err = "ok", !.ret = <<l.completion_id>>])
        /\ pc' = [pc EXCEPT ![p] = "idle"]
        /\ loc' = [loc EXCEPT ![p] = NoLoc]
        /\ UNCHANGED <<profiles, app_state, habits, completions, xp_service>>

\* a direct award from its entry to the select (xp/service.py 67-73)
award_begin(p, profile_id, habit_id, completion_id) ==
    LET existing == ExistingXPEvents(xp_events, habit_id, completion_id)
        call == [NoCall EXCEPT !.op = "award_habit_completion", !.id = completion_id,
                               !.profile_id = profile_id, !.habit_id = habit_id]
    IN  /\ Called(p)
        /\ IF existing # {}
           THEN /\ Report(p, [call EXCEPT !.err = "ok",
                         !.ret = <<(CHOOSE e \in existing :
                                      \A x \in existing : e.id <= x.id).id>>])
                /\ UNCHANGED <<pc, loc>>
           ELSE /\ pc' = [pc EXCEPT ![p] = "award_insert"]
                /\ loc' = [loc EXCEPT ![p] =
                              [NoLoc EXCEPT !.profile_id = profile_id,
                                            !.habit_id = habit_id,
                                            !.completion_id = completion_id]]
                /\ UNCHANGED res
        /\ UNCHANGED <<store, xp_service>>

\* the insert of a direct award and its commit (xp/service.py 76-87)
award_insert(p) ==
    LET l == loc[p]
        call == [NoCall EXCEPT !.op = "award_habit_completion", !.id = l.completion_id,
                               !.profile_id = l.profile_id, !.habit_id = l.habit_id]
        xp_event == NewXPEvent(xp_events, l.profile_id, l.habit_id, l.completion_id)
    IN  /\ pc[p] = "award_insert"
        /\ UNCHANGED calls
        /\ IF ~unique_completion_id(xp_events, xp_event)
           THEN /\ Report(p, [call EXCEPT !.err = "IntegrityError"])
                /\ UNCHANGED xp_events
           ELSE /\ xp_events' = xp_events \cup {xp_event}
                /\ Report(p, [call EXCEPT !.err = "ok", !.ret = <<xp_event.id>>])
        /\ pc' = [pc EXCEPT ![p] = "idle"]
        /\ loc' = [loc EXCEPT ![p] = NoLoc]
        /\ UNCHANGED <<profiles, app_state, habits, completions, xp_service>>

\* create_habit from its entry to the duplicate query (service.py 105-121)
create_begin(p, name, periodicity) ==
    LET profile_id == HabitService_get_active_profile
        normalized_name == Strip(name)
        call == [NoCall EXCEPT !.op = "create_habit", !.name = name,
                               !.periodicity = periodicity]
        inflight == {q \in Callers : pc[q] = "create_insert"}
    IN  /\ Called(p)
        /\ IF profile_id = None
           THEN /\ Report(p, [call EXCEPT !.err = "ActiveProfileRequired"])
                /\ UNCHANGED <<pc, loc>>
           ELSE IF normalized_name = <<>>
           THEN /\ Report(p, [call EXCEPT !.err = "ValueError"])
                /\ UNCHANGED <<pc, loc>>
           ELSE IF ExistingActiveHabits(profile_id, normalized_name) # {}
           THEN /\ Report(p, [call EXCEPT !.err = "HabitAlreadyExists"])
                /\ UNCHANGED <<pc, loc>>
           ELSE /\ Cardinality(habits) + Cardinality(inflight) < MaxHabits
                /\ pc' = [pc EXCEPT ![p] = "create_insert"]
                /\ loc' = [loc EXCEPT ![p] =
                              [NoLoc EXCEPT !.profile_id = profile_id, !.name = name,
                                            !.periodicity = periodicity]]
                /\ UNCHANGED res
        /\ UNCHANGED <<store, xp_service>>

\* the insert of the Habit and its commit (service.py 124-133)
create_insert(p) ==
    LET l == loc[p]
        id == NextId(habits)
    IN  /\ pc[p] = "create_insert"
        /\ UNCHANGED calls
        /\ habits' = habits \cup {Habit(id, l.profile_id, Strip(l.name), l.periodicity)}
        /\ Report(p, [NoCall EXCEPT !.op = "create_habit", !.name = l.name,
                                    !.periodicity = l.periodicity,
                                    !.err = "ok", !.ret = <<id>>])
        /\ pc' = [pc EXCEPT ![p] = "idle"]
        /\ loc' = [loc EXCEPT ![p] = NoLoc]
        /\ UNCHANGED <<profiles, app_state, completions, xp_events, xp_service>>

-----------------------------------------------------------------------------
(* Analytics: pure functions over habit and completion DTOs.  A parse      *)
(* result is [ok, v]: ok is FALSE where Python raises ValueError.           *)

ValueError == [ok |-> FALSE, v |-> 0]

Parsed(n) == [ok |-> TRUE, v |-> n]

IsDigit(c) == \E i \in 1..10 : DigitChars[i] = c

DigitValue(c) == (CHOOSE i \in 1..10 : DigitChars[i] = c) - 1

AllDigits(s) == s # <<>> /\ \A i \in 1..Len(s) : IsDigit(s[i])

RECURSIVE DigitsValue(_)
\* the number written by a non-empty sequence of digit characters
DigitsValue(s) ==
    IF Len(s) = 1 THEN DigitValue(s[1])
    ELSE 10 * DigitsValue(SubSeq(s, 1, Len(s) - 1)) + DigitValue(s[Len(s)])

\* int(s): surrounding whitespace and one sign are accepted, and single
\* underscores between digits
ParseInt(s) ==
    LET t == Strip(s)
        signed == t # <<>> /\ t[1] \in {"+", "-"}
        body == IF signed THEN Tail(t) ELSE t
        grouped ==
            /\ body # <<>>
            /\ IsDigit(body[1]) /\ IsDigit(body[Len(body)])
            /\ \A i \in 1..Len(body) : IsDigit(body[i]) \/ body[i] = "_"
            /\ \A i \in 1..(Len(body) - 1) : ~(body[i] = "_" /\ body[i + 1] = "_")
        digits == SelectSeq(body, IsDigit)
    IN  IF ~grouped THEN ValueError
        ELSE IF signed /\ t[1] = "-" THEN Parsed(-DigitsValue(digits))
        ELSE Parsed(DigitsValue(digits))

\* date(year, month, day).toordinal(), ValueError for a date that does not exist
DateOrdinal(y, m, d) ==
    IF y \in 1..9999 /\ m \in 1..12 /\ d \in 1..DaysInMonth(y, m)
    THEN Parsed(ToOrdinal(y, m, d)) ELSE ValueError

\* an ISO year has 53 weeks when its week 1 and the next year's are 371 days apart
IsoLongYear(y) == IsoWeek1Monday(y + 1) - IsoWeek1Monday(y) = 371

\* date.fromisocalendar(year, week, day).toordinal()
FromIsoCalendar(year, week, day) ==
    IF /\ year \in 1..9999
       /\ week \in 1..53
       /\ week = 53 => IsoLongYear(year)
       /\ day \in 1..7
    THEN Parsed(IsoWeek1Monday(year) + (week - 1) * 7 + (day - 1))
    ELSE ValueError

\* date.fromisoformat(s).toordinal().  Up to Python 3.10 only YYYY-MM-DD is
\* accepted; from 3.11 on (extended) also YYYYMMDD and the ISO week forms
\* YYYY-Www, YYYY-Www-D, YYYYWww and YYYYWwwD.
FromIsoFormat(s, extended) ==
    LET n == Len(s)
        num(i, j) == DigitsValue(SubSeq(s, i, j))
        dig(i, j) == AllDigits(SubSeq(s, i, j))
    IN  IF n = 10 /\ s[5] = "-" /\ s[8] = "-" /\ dig(1, 4) /\ dig(6, 7) /\ dig(9, 10)
        THEN DateOrdinal(num(1, 4), num(6, 7), num(9, 10))
        ELSE IF ~extended THEN ValueError
        ELSE IF n = 8 /\ dig(1, 8)
        THEN DateOrdinal(num(1, 4), num(5, 6), num(7, 8))
        ELSE IF n = 8 /\ s[5] = "-" /\ s[6] = "W" /\ dig(1, 4) /\ dig(7, 8)
        THEN FromIsoCalendar(num(1, 4), num(7, 8), 1)
        ELSE IF n = 10 /\ s[5] = "-" /\ s[6] = "W" /\ s[9] = "-"
                /\ dig(1, 4) /\ dig(7, 8) /\ dig(10, 10)
        THEN FromIsoCalendar(num(1, 4), num(7, 8), num(10, 10))
        ELSE IF n = 7 /\ s[5] = "W" /\ dig(1, 4) /\ dig(6, 7)
        THEN FromIsoCalendar(num(1, 4), num(6, 7), 1)
        ELSE IF n = 8 /\ s[5] = "W" /\ dig(1, 4) /\ dig(6, 8)
        THEN FromIsoCalendar(num(1, 4), num(6, 7), num(8, 8))
        ELSE ValueError

\* where '-W' starts in s
DashW(s) == {i \in 1..(Len(s) - 1) : s[i] = "-" /\ s[i + 1] = "W"}

\* YYYY-MM-DD (DAILY) or YYYY-Www (WEEKLY) to the ordinal of the day, or of
\* the Monday of the week; unpacking split('-W') into two names raises
\* ValueError unless '-W' occurs exactly once
parse_period_key_to_ordinal(period_key, periodicity, extended) ==
    IF periodicity = "DAILY" THEN FromIsoFormat(period_key, extended)
    ELSE IF periodicity = "WEEKLY"
    THEN IF Cardinality(DashW(period_key)) # 1 THEN ValueError
         ELSE LET i == CHOOSE j \in DashW(period_key) : TRUE
                  year == ParseInt(SubSeq(period_key, 1, i - 1))
                  week == ParseInt(SubSeq(period_key, i + 2, Len(period_key)))
              IN  IF ~year.ok \/ ~week.ok THEN ValueError
                  ELSE FromIsoCalendar(year.v, week.v, 1)
    ELSE ValueError

\* every period is one day long
get_consecutive_step_one(periodicity) == 1

get_consecutive_step(periodicity) == IF periodicity = "DAILY" THEN 1 ELSE 7

HabitDTO(id, name, periodicity) == [id |-> id, name |-> name, periodicity |-> periodicity]

CompletionDTO(habit_id, period_key) == [habit_id |-> habit_id, period_key |-> period_key]

\* an optional field of a result: <<>> for None, <<x>> for x
LongestStreakDTO(length, habit_id, habit_name, periodicity) ==
    [length |-> length, habit_id |-> habit_id, habit_name |-> habit_name,
     periodicity |-> periodicity]

\* a key that does not parse stands for ordinal 0
PeriodOrdinals_invalid_as_zero(habit_completions, periodicity, extended) ==
    {parse_period_key_to_ordinal(habit_completions[i].period_key, periodicity, extended).v :
        i \in 1..Len(habit_completions)}

\* the ordinals of the keys that parse, each once; the others are skipped
PeriodOrdinals(habit_completions, periodicity, extended) ==
    {parse_period_key_to_ordinal(habit_completions[i].period_key, periodicity, extended).v :
        i \in {j \in 1..Len(habit_completions) :
                 parse_period_key_to_ordinal(habit_completions[j].period_key,
                                             periodicity, extended).ok}}

RECURSIVE Sorted(_)
\* sorted(S)
Sorted(S) ==
    IF S = {} THEN <<>>
    ELSE LET least == CHOOSE x \in S : \A y \in S : x <= y
         IN  <<least>> \o Sorted(S \ {least})

RECURSIVE StreakScan_no_reset(_, _, _, _, _)
\* the run is never started over
StreakScan_no_reset(sorted_ordinals, step, i, current_streak, max_streak) ==
    IF i > Len(sorted_ordinals) THEN max_streak
    ELSE StreakScan_no_reset(sorted_ordinals, step, i + 1, current_streak + 1,
                             Max({max_streak, current_streak + 1}))

RECURSIVE StreakScan(_, _, _, _, _)
\* the loop over sorted_ordinals[i], i = 2..: current_streak goes back to 1
\* whenever the gap to the ordinal before is not the step
StreakScan(sorted_ordinals, step, i, current_streak, max_streak) ==
    IF i > Len(sorted_ordinals) THEN max_streak
    ELSE IF sorted_ordinals[i] = sorted_ordinals[i - 1] + step
    THEN StreakScan(sorted_ordinals, step, i + 1, current_streak + 1,
                    Max({max_streak, current_streak + 1}))
    ELSE StreakScan(sorted_ordinals, step, i + 1, 1, max_streak)

IsHabit(c, habit) == c.habit_id = habit.id

longest_streak_for_habit(habit, completion_dtos, extended) ==
    LET habit_completions ==
            SelectSeq(completion_dtos, LAMBDA c : IsHabit(c, habit))
        period_ordinals_ == PeriodOrdinals(habit_completions, habit.periodicity, extended)
    IN  IF habit_completions = <<>> THEN 0
        ELSE IF period_ordinals_ = {} THEN 0
        ELSE StreakScan(Sorted(period_ordinals_),
                        get_consecutive_step(habit.periodicity), 2, 1, 1)

\* a direct call of longest_streak_for_habit
longest_streak(p, habit, completion_dtos, extended) ==
    /\ Called(p)
    /\ Report(p, [NoCall EXCEPT !.op = "longest_streak_for_habit", !.id = habit.id,
                    !.periodicity = habit.periodicity, !.arg = completion_dtos,
                    !.extended = extended, !.err = "ok",
                    !.ret = <<longest_streak_for_habit(habit, completion_dtos, extended)>>])
    /\ UNCHANGED <<store, xp_service, pc, loc>>

EmptyStreak == LongestStreakDTO(0, <<>>, <<>>, <<>>)

\* on a tie the habit met first is kept
PreferredOnTie_first_wins(habit, best_habit) == FALSE

\* tie-breaking: the lower habit id
PreferredOnTie(habit, best_habit) == habit.id < best_habit.id

\* the result names the habit by id and periodicity only
BestResult_no_name(best_streak, best_habit) ==
    LongestStreakDTO(best_streak, <<best_habit.id>>, <<>>, <<best_habit.periodicity>>)

BestResult(best_streak, best_habit) ==
    LongestStreakDTO(best_streak, <<best_habit.id>>, <<best_habit.name>>,
                     <<best_habit.periodicity>>)

RECURSIVE BestScan(_, _, _, _, _, _)
\* the loop over habit_dtos[i]; best_habit is <<>> for None, <<habit>> otherwise
BestScan(habit_dtos, completion_dtos, extended, i, best_streak, best_habit) ==
    IF i > Len(habit_dtos)
    THEN IF best_habit = <<>> \/ best_streak = 0 THEN EmptyStreak
         ELSE BestResult(best_streak, best_habit[1])
    ELSE LET habit == habit_dtos[i]
             streak == longest_streak_for_habit(habit, completion_dtos, extended)
         IN  IF streak > best_streak
             THEN BestScan(habit_dtos, completion_dtos, extended, i + 1, streak, <<habit>>)
             ELSE IF streak = best_streak /\ best_habit # <<>>
                     /\ PreferredOnTie(habit, best_habit[1])
             THEN BestScan(habit_dtos, completion_dtos, extended, i + 1, best_streak, <<habit>>)
             ELSE BestScan(habit_dtos, completion_dtos, extended, i + 1, best_streak, best_habit)

longest_streak_across_habits(habit_dtos, completion_dtos, extended) ==
    IF habit_dtos = <<>> THEN EmptyStreak
    ELSE BestScan(habit_dtos, completion_dtos, extended, 1, 0, <<>>)

\* a direct call of longest_streak_across_habits
longest_streak_across(p, habit_dtos, completion_dtos, extended) ==
    /\ Called(p)
    /\ Report(p, [NoCall EXCEPT !.op = "longest_streak_across_habits",
                    !.arg = <<habit_dtos, completion_dtos>>, !.extended = extended,
                    !.err = "ok",
                    !.ret = <<longest_streak_across_habits(habit_dtos, completion_dtos,
                                                           extended)>>])
    /\ UNCHANGED <<store, xp_service, pc, loc>>

\* encode two instants, decode both keys: the two ordinals and the step
period_ordinals(p, t1, t2, periodicity, extended) ==
    LET k1 == compute_period_key(t1, periodicity)
        k2 == compute_period_key(t2, periodicity)
        o1 == parse_period_key_to_ordinal(k1, periodicity, extended)
        o2 == parse_period_key_to_ordinal(k2, periodicity, extended)
    IN  /\ Called(p)
        /\ Report(p, [NoCall EXCEPT !.op = "period_ordinals", !.periodicity = periodicity,
                        !.arg = <<t1, t2>>, !.pk = <<k1, k2>>,
                        !.err = IF o1.ok /\ o2.ok THEN "ok" ELSE "ValueError",
                        !.ret = IF o1.ok /\ o2.ok
                                THEN <<o1.v, o2.v, get_consecutive_step(periodicity)>>
                                ELSE <<>>])
        /\ UNCHANGED <<store, xp_service, pc, loc>>

-----------------------------------------------------------------------------
(* Specifications.                                                         *)

\* one caller, every handler run to its end before the next call
Next ==
    /\ calls < MaxCalls
    /\ \/ \E u \in Usernames : create_profile(Caller, u)
       \/ \E u \in Usernames : switch_active_profile(Caller, u)
       \/ \E u \in Usernames : delete_profile(Caller, u)
       \/ get_active(Caller)
       \/ \E n \in HabitNames, per \in Periodicities : create_habit(Caller, n, per)
       \/ \E a \in BOOLEAN, per \in Periodicities \cup {""} : list_habits(Caller, a, per)
       \/ \E h \in HabitIds : archive_habit(Caller, h)
       \/ \E h \in HabitIds, t \in Timestamps : complete_habit(Caller, h, t)
       \/ \E t \in Timestamps : get_due_habits(Caller, t)
       \/ get_total_xp_for_active_profile(Caller)
       \/ get_level_progress_for_active_profile(Caller)

Spec == Init /\ [][Next]_vars

\* two callers, their commits interleaved
NextConc ==
    \E p \in Callers :
        /\ pc[p] = "idle" => calls < MaxConcCalls
        /\ \/ \E u \in Usernames : create_profile(p, u)
           \/ \E u \in Usernames : switch_begin(p, u)
           \/ switch_commit(p)
           \/ \E u \in Usernames : delete_profile(p, u)
           \/ \E n \in HabitNames, per \in Periodicities : create_habit(p, n, per)
           \/ \E a \in BOOLEAN, per \in Periodicities \cup {""} : list_habits(p, a, per)
           \/ \E h \in HabitIds : archive_habit(p, h)
           \/ \E h \in HabitIds, t \in Timestamps : complete_begin(p, h, t)
           \/ complete_insert(p)
           \/ complete_award(p)
           \/ \E t \in Timestamps : get_due_habits(p, t)
           \/ get_total_xp_for_active_profile(p)
           \/ get_level_progress_for_active_profile(p)

SpecConc == Init /\ [][NextConc]_vars

\* one caller again, with fewer inputs to draw from and more calls to make:
\* long enough for one profile to create, complete and archive a habit, and
\* for another profile to be created, made active and to ask for that habit
OwnUsernames == {<<"a">>, <<"b">>}

OwnTimestamps == {T(2025, 12, 28, 20), T(2025, 12, 29, 8)}

NextOwn ==
    /\ calls < MaxOwnCalls
    /\ \/ \E u \in OwnUsernames : create_profile(Caller, u)
       \/ \E u \in OwnUsernames : switch_active_profile(Caller, u)
       \/ \E u \in OwnUsernames : delete_profile(Caller, u)
       \/ \E per \in Periodicities : create_habit(Caller, <<"r">>, per)
       \/ \E a \in BOOLEAN : list_habits(Caller, a, "")
       \/ \E h \in HabitIds : archive_habit(Caller, h)
       \/ \E h \in HabitIds, t \in OwnTimestamps : complete_habit(Caller, h, t)
       \/ \E t \in OwnTimestamps : get_due_habits(Caller, t)

SpecOwn == Init /\ [][NextOwn]_vars

\* one caller that also calls the XP ledger directly, with ids of its own
\* choosing: the ledger looks none of them up
CompletionIds == 1..MaxCompletions

NextAward ==
    /\ calls < MaxAwardCalls
    /\ \/ create_profile(Caller, <<"a">>)
       \/ switch_active_profile(Caller, <<"a">>)
       \/ \E per \in Periodicities : create_habit(Caller, <<"r">>, per)
       \/ \E h \in {1, 2}, t \in OwnTimestamps : complete_habit(Caller, h, t)
       \/ \E r \in {1, 2}, h \in {1, 2}, c \in CompletionIds : award(Caller, r, h, c)
       \/ get_total_xp_for_active_profile(Caller)
       \/ \E r \in {1, 2} : get_total_xp_of(Caller, r)

SpecAward == Init /\ [][NextAward]_vars

\* two callers, direct awards among their calls, every select and every
\* commit a step of its own
NextAwardConc ==
    \E p \in Callers :
        /\ pc[p] = "idle" => calls < MaxAwardConcCalls
        /\ \/ create_profile(p, <<"a">>)
           \/ switch_active_profile(p, <<"a">>)
           \/ create_habit(p, <<"r">>, "DAILY")
           \/ \E h \in {1, 2}, t \in OwnTimestamps : complete_begin(p, h, t)
           \/ complete_insert(p)
           \/ complete_award_begin(p)
           \/ complete_award_insert(p)
           \/ \E c \in CompletionIds : award_begin(p, 1, 1, c)
           \/ award_insert(p)

SpecAwardConc == Init /\ [][NextAwardConc]_vars

\* the names two callers create habits with: two of them trim to one string
CreateNames == {<<"r">>, <<" ", "r", "\t">>, <<"R">>}

\* two callers creating and archiving habits, the duplicate query and the
\* insert of create_habit steps of their own
NextCreateConc ==
    \E p \in Callers :
        /\ pc[p] = "idle" => calls < MaxCreateConcCalls
        /\ \/ create_profile(p, <<"a">>)
           \/ switch_active_profile(p, <<"a">>)
           \/ \E n \in CreateNames, per \in Periodicities : create_begin(p, n, per)
           \/ create_insert(p)
           \/ \E h \in {1, 2} : archive_habit(p, h)

SpecCreateConc == Init /\ [][NextCreateConc]_vars

\* totals around 10 * 2^50, 10 * 2^51 and 10 * 2^52
LargeXPTotals ==
    {<<1, 1, 2, 5, 8, 9, 9, 9, 0, 6, 8, 4, 2, 6, 2, 3, 9>>,
     <<1, 1, 2, 5, 8, 9, 9, 9, 0, 6, 8, 4, 2, 6, 2, 4, 0>>,
     <<1, 1, 2, 5, 8, 9, 9, 9, 0, 6, 8, 4, 2, 6, 2, 4, 9>>,
     <<2, 2, 5, 1, 7, 9, 9, 8, 1, 3, 6, 8, 5, 2, 4, 8, 7>>,
     <<2, 2, 5, 1, 7, 9, 9, 8, 1, 3, 6, 8, 5, 2, 4, 8, 8>>,
     <<4, 5, 0, 3, 5, 9, 9, 6, 2, 7, 3, 7, 0, 4, 9, 6, 5>>,
     <<4, 5, 0, 3, 5, 9, 9, 6, 2, 7, 3, 7, 0, 4, 9, 6, 6>>,
     <<4, 5, 0, 3, 5, 9, 9, 6, 2, 7, 3, 7, 0, 4, 9, 7, 5>>}

XPTotals == {Digits(n) : n \in 0..MaxSmallXP} \cup LargeXPTotals

\* the level arithmetic alone, called with a total of the caller's choice
NextLevel ==
    /\ calls < MaxLevelCalls
    /\ \E total_xp \in XPTotals : level_progress(Caller, total_xp)

SpecLevel == Init /\ [][NextLevel]_vars

\* instants on both sides of a month end, a leap day, a year end inside an
\* ISO week (2025-W52 | 2026-W01) and the end of a 53-week ISO year (2026)
CodecTimestamps ==
    {T(2024, 2, 28, 12), T(2024, 2, 29, 12), T(2024, 3, 1, 12),
     T(2025, 12, 21, 12), T(2025, 12, 22, 12), T(2025, 12, 28, 12),
     T(2025, 12, 29, 8), T(2025, 12, 29, 20), T(2025, 12, 31, 12),
     T(2026, 1, 1, 12), T(2026, 1, 4, 12), T(2026, 1, 5, 12),
     T(2026, 12, 27, 12), T(2026, 12, 28, 12), T(2027, 1, 3, 12), T(2027, 1, 4, 12)}

\* the period codec alone: encode two instants and decode the keys
NextCodec ==
    /\ calls = 0
    /\ \E t1 \in CodecTimestamps, t2 \in CodecTimestamps,
          periodicity \in Periodicities, extended \in BOOLEAN :
            period_ordinals(Caller, t1, t2, periodicity, extended)

SpecCodec == Init /\ [][NextCodec]_vars

\* keys of habit 1: 2025-12-30, 2025-12-31, 2026-01-01 and, after a gap,
\* 2026-01-03; a day that does not exist; a week key (a Monday, 2025-12-29,
\* for Python 3.11).  Weekly: 2025-W52, 2026-W01 and, after a gap, 2026-W03;
\* week 53 of a 52-week year; a one-digit week; a day key
StreakKeys(periodicity) ==
    IF periodicity = "DAILY"
    THEN {compute_period_key(T(2025, 12, 30, 12), "DAILY"),
          compute_period_key(T(2025, 12, 31, 12), "DAILY"),
          compute_period_key(T(2026, 1, 1, 12), "DAILY"),
          compute_period_key(T(2026, 1, 3, 12), "DAILY"),
          <<"2", "0", "2", "5", "-", "0", "2", "-", "3", "0">>,
          <<"2", "0", "2", "6", "-", "W", "0", "1">>}
    ELSE {compute_period_key(T(2025, 12, 28, 12), "WEEKLY"),
          compute_period_key(T(2025, 12, 29, 12), "WEEKLY"),
          compute_period_key(T(2026, 1, 12, 12), "WEEKLY"),
          <<"2", "0", "2", "5", "-", "W", "5", "3">>,
          <<"2", "0", "2", "6", "-", "W", "2">>,
          <<"2", "0", "2", "6", "-", "0", "1", "-", "0", "5">>}

\* the completions of habit 1, and one of habit 2 in the gap of habit 1
StreakCompletions(periodicity) ==
    {CompletionDTO(1, k) : k \in StreakKeys(periodicity)}
        \cup {CompletionDTO(2, compute_period_key(
                    IF periodicity = "DAILY" THEN T(2026, 1, 2, 12) ELSE T(2026, 1, 5, 12),
                    periodicity))}

SeqsUpTo(S, n) == UNION {[1..k -> S] : k \in 0..n}

\* longest_streak_for_habit alone, on a list of the caller's making
NextStreak ==
    /\ calls = 0
    /\ \E periodicity \in Periodicities, extended \in BOOLEAN :
         \E completion_dtos \in SeqsUpTo(StreakCompletions(periodicity), MaxKeys) :
            longest_streak(Caller, HabitDTO(1, <<"r">>, periodicity), completion_dtos, extended)

SpecStreak == Init /\ [][NextStreak]_vars

\* two daily habits and a weekly one
BestHabits ==
    {HabitDTO(1, <<"r">>, "DAILY"), HabitDTO(2, <<"s">>, "DAILY"),
     HabitDTO(3, <<"t">>, "WEEKLY")}

\* up to two days running for habit 1 (and a day that does not exist), up to
\* three for habit 2, up to two weeks running for habit 3
BestCompletions ==
    {CompletionDTO(1, compute_period_key(T(2025, 12, 31, 12), "DAILY")),
     CompletionDTO(1, compute_period_key(T(2026, 1, 1, 12), "DAILY")),
     CompletionDTO(1, <<"2", "0", "2", "5", "-", "0", "2", "-", "3", "0">>),
     CompletionDTO(2, compute_period_key(T(2025, 12, 31, 12), "DAILY")),
     CompletionDTO(2, compute_period_key(T(2026, 1, 1, 12), "DAILY")),
     CompletionDTO(2, compute_period_key(T(2026, 1, 2, 12), "DAILY")),
     CompletionDTO(3, compute_period_key(T(2025, 12, 28, 12), "WEEKLY")),
     CompletionDTO(3, compute_period_key(T(2025, 12, 29, 12), "WEEKLY"))}

\* the lists that name each habit at most once, in every order
HabitLists ==
    {hs \in SeqsUpTo(BestHabits, Cardinality(BestHabits)) :
        \A i \in 1..Len(hs), j \in 1..Len(hs) : hs[i] = hs[j] => i = j}

RECURSIVE ListOf(_)
\* the members of S in a list
ListOf(S) ==
    IF S = {} THEN <<>>
    ELSE LET x == CHOOSE y \in S : TRUE
         IN  <<x>> \o ListOf(S \ {x})

\* longest_streak_across_habits alone, on lists of the caller's making
NextBest ==
    /\ calls = 0
    /\ \E habit_dtos \in HabitLists, given \in SUBSET BestCompletions, extended \in BOOLEAN :
         longest_streak_across(Caller, habit_dtos, ListOf(given), extended)

SpecBest == Init /\ [][NextBest]_vars

-----------------------------------------------------------------------------
(* Properties.  They read the tables and the report of the last call, not  *)
(* the operators the handlers are built from.                              *)

\* the step is a call that ran to its end, and res' is its report
Ended(op) == calls' = calls + 1 /\ pc' = pc /\ res'.op = op

\* the profile the pointer resolves to, as a set: empty when the row is
\* absent, the pointer unset, or the profile gone
ActiveProfileIds ==
    {r.id : r \in {q \in profiles :
                     \E s \in app_state : s.id = 1 /\ s.active_profile_id # None
                                          /\ s.active_profile_id = q.id}}

RowsFor(habit_id, period_key) ==
    {c \in completions : c.habit_id = habit_id /\ c.period_key = period_key}

\* C1: no two Completion rows share the pair (habit_id, period_key), in any
\* state the two callers can reach with their commits interleaved in any order.
C1_UniqueCompletionPerPeriod ==
    \A c1 \in completions : \A c2 \in completions :
        (c1.habit_id = c2.habit_id /\ c1.period_key = c2.period_key) => c1 = c2

\* a habit completed in two periods: two rows for one habit, two keys
C1_Witness ==
    \E c1 \in completions : \E c2 \in completions :
        c1.habit_id = c2.habit_id /\ c1.period_key # c2.period_key

\* C2: for an active habit h of the active profile and a timestamp t, a call
\* complete(h, t) succeeds and adds exactly one Completion (h, t, key of t) when
\* h has none for the period of t, and otherwise fails with
\* HabitAlreadyCompletedForPeriod carrying h and that same period key, adding
\* nothing; so a second call in the period fails whatever its timestamp.
C2_CompleteTwiceSamePeriod ==
    [][\A h \in habits :
         (/\ Ended("complete_habit")
          /\ res'.id = h.id
          /\ h.is_active
          /\ h.profile_id \in ActiveProfileIds)
         => LET key == compute_period_key(res'.when, h.periodicity)
            IN  IF RowsFor(h.id, key) = {}
                THEN /\ res'.err = "ok"
                     /\ \E c \in completions' :
                          /\ c \notin completions
                          /\ completions' = completions \cup {c}
                          /\ c.habit_id = h.id
                          /\ c.period_key = key
                          /\ c.completed_at = res'.when
                          /\ res'.ret = <<c.id>>
                ELSE /\ res'.err = "HabitAlreadyCompletedForPeriod"
                     /\ res'.id = h.id
                     /\ res'.pk = key
                     /\ \A c \in RowsFor(h.id, key) : c.period_key = res'.pk
                     /\ completions' = completions]_vars

\* the second call was refused although its timestamp differs from the one
\* of the completion that holds the period
C2_Witness ==
    /\ res.op = "complete_habit"
    /\ res.err = "HabitAlreadyCompletedForPeriod"
    /\ \E c \in completions :
         c.habit_id = res.id /\ c.period_key = res.pk /\ c.completed_at # res.when

\* C3: two callers past their existence checks for the same habit and period:
\* the insert that finds no row for the pair succeeds and adds the row, the
\* insert that finds one is refused by the store (IntegrityError on
\* unique_habit_period), adds nothing and reports the failure; with C1, of two
\* racing calls exactly one succeeds.
C3_OneWinner ==
    [][\A p \in Callers :
         (pc[p] = "complete_insert" /\ pc'[p] # "complete_insert")
         => IF RowsFor(loc[p].habit_id, loc[p].period_key) # {}
            THEN /\ completions' = completions
                 /\ xp_events' = xp_events
                 /\ pc'[p] = "idle"
                 /\ res'.caller = p
                 /\ res'.op = "complete_habit"
                 /\ res'.err = "IntegrityError"
            ELSE /\ \E c \in completions' :
                      /\ completions' = completions \cup {c}
                      /\ c \notin completions
                      /\ c.habit_id = loc[p].habit_id
                      /\ c.period_key = loc[p].period_key
                 /\ \/ pc'[p] = "complete_award"
                    \/ (pc'[p] = "idle" /\ res'.caller = p /\ res'.err = "ok")]_vars

\* both callers passed the check, one inserted, the other was refused
C3_Witness ==
    /\ res.op = "complete_habit"
    /\ res.err = "IntegrityError"
    /\ Cardinality(RowsFor(res.id, res.pk)) = 1
    /\ \A c \in RowsFor(res.id, res.pk) : c.completed_at # res.when

\* C4: complete on an archived habit of the active profile fails with
\* HabitArchived and adds no Completion and no XPEvent, whether or not the
\* habit has a completion for the period of the timestamp.
C4_ArchivedNeverCompletes ==
    [][\A h \in habits :
         (/\ Ended("complete_habit")
          /\ res'.id = h.id
          /\ ~h.is_active
          /\ h.profile_id \in ActiveProfileIds)
         => /\ res'.err = "HabitArchived"
            /\ completions' = completions
            /\ xp_events' = xp_events]_vars

\* refused as archived although the period of the timestamp is completed
C4_Witness ==
    /\ res.op = "complete_habit"
    /\ res.err = "HabitArchived"
    /\ \E h \in habits :
         /\ h.id = res.id
         /\ RowsFor(h.id, compute_period_key(res.when, h.periodicity)) # {}

\* C5: a habit whose is_active is false keeps it false, and stays in the
\* table, across every step.
C5_ArchivalTerminal ==
    [][\A h \in habits :
         ~h.is_active => \E g \in habits' : g.id = h.id /\ ~g.is_active]_vars

\* an archived habit was archived once more
C5_Witness ==
    /\ res.op = "archive_habit"
    /\ res.err = "ok"
    /\ \E h \in habits :
         /\ h.id = res.id
         /\ ~h.is_active
         /\ \E g \in habits : g.id > h.id /\ g.name = h.name /\ g.profile_id = h.profile_id

\* a name without its leading and trailing blanks, said without recursion:
\* the stretch from the first to the last character that is no blank
Blank == {" ", "\t", "\n"}

Trimmed(s) ==
    LET inked == {i \in 1..Len(s) : s[i] \notin Blank}
    IN  IF inked = {} THEN <<>>
        ELSE SubSeq(s, CHOOSE i \in inked : \A j \in inked : i <= j,
                       CHOOSE i \in inked : \A j \in inked : i >= j)

\* C6: among the active habits of one profile no two have the same name
\* (names compared exactly, case included), in every state a sequence of
\* calls reaches.
C6_UniqueActiveName ==
    \A h1 \in habits : \A h2 \in habits :
        (/\ h1.is_active /\ h2.is_active
         /\ h1.profile_id = h2.profile_id
         /\ h1.name = h2.name)
        => h1.id = h2.id

\* two active habits of one profile whose names differ in case only
C6_Witness ==
    \E h1 \in habits : \E h2 \in habits :
        /\ h1.is_active /\ h2.is_active
        /\ h1.profile_id = h2.profile_id
        /\ h1.name # h2.name
        /\ Lower(h1.name) = Lower(h2.name)

\* C7: create with a name whose trimmed form is the name of an active habit
\* of the active profile fails with HabitAlreadyExists, whatever the cadence
\* asked for, and leaves the habit table as it was.
C7_DuplicateRejected ==
    [][\A h \in habits :
         (/\ Ended("create_habit")
          /\ h.is_active
          /\ h.profile_id \in ActiveProfileIds
          /\ h.name = Trimmed(res'.name))
         => /\ res'.err = "HabitAlreadyExists"
            /\ habits' = habits]_vars

\* a duplicate refused although it asked for the other cadence and was
\* written with blanks around the name
C7_Witness ==
    /\ res.op = "create_habit"
    /\ res.err = "HabitAlreadyExists"
    /\ \E h \in habits :
         /\ h.is_active
         /\ h.name = Trimmed(res.name)
         /\ h.name # res.name
         /\ h.periodicity # res.periodicity

\* C8: when the active profile has an archived habit g named n and no active
\* habit named n (the state right after archive of the active habit n, by C6),
\* create(n, any cadence) succeeds: one new active habit of that profile with
\* that name and an id other than g's, and g stays archived.
C8_ArchivedNameReusable ==
    [][\A g \in habits :
         (/\ Ended("create_habit")
          /\ ~g.is_active
          /\ g.profile_id \in ActiveProfileIds
          /\ g.name = Trimmed(res'.name)
          /\ \A h \in habits :
               ~(h.is_active /\ h.profile_id = g.profile_id /\ h.name = g.name))
         => /\ res'.err = "ok"
            /\ \E n \in habits' :
                 /\ n \notin habits
                 /\ habits' = habits \cup {n}
                 /\ n.id # g.id
                 /\ n.is_active
                 /\ n.name = g.name
                 /\ n.profile_id = g.profile_id
                 /\ n.periodicity = res'.periodicity
            /\ g \in habits']_vars

\* a habit created under the name of an archived habit of the same profile
C8_Witness ==
    /\ res.op = "create_habit"
    /\ res.err = "ok"
    /\ \E n \in habits : \E g \in habits :
         /\ res.ret = <<n.id>>
         /\ n.is_active
         /\ ~g.is_active
         /\ g.id # n.id
         /\ g.name = n.name
         /\ g.profile_id = n.profile_id

\* C9: with a profile active, create with a name that is blank after
\* trimming fails with the ValueError "Habit name cannot be empty" and adds no
\* habit; a create that succeeds adds exactly one habit holding the trimmed
\* name, the cadence asked for, the active profile as owner and is_active true.
C9_EmptyNameAndStoredFields ==
    [][(Ended("create_habit") /\ ActiveProfileIds # {})
       => /\ Trimmed(res'.name) = <<>>
               => (res'.err = "ValueError" /\ habits' = habits)
          /\ res'.err = "ok"
               => \E h \in habits' :
                    /\ h \notin habits
                    /\ habits' = habits \cup {h}
                    /\ res'.ret = <<h.id>>
                    /\ h.name = Trimmed(res'.name)
                    /\ h.name # <<>>
                    /\ h.periodicity = res'.periodicity
                    /\ h.profile_id \in ActiveProfileIds
                    /\ h.is_active]_vars

\* a name of blanks only was refused as empty
C9_Witness ==
    /\ res.op = "create_habit"
    /\ res.err = "ValueError"
    /\ res.name # <<>>
    /\ ActiveProfileIds # {}

ProfileRequiredOps ==
    {"create_habit", "list_habits", "archive_habit", "complete_habit",
     "get_due_habits", "get_total_xp_for_active_profile",
     "get_level_progress_for_active_profile"}

\* C10: while no profile is active (the AppState row absent, its pointer
\* unset, or its pointer naming a profile that is gone) every call of habit
\* create, list, archive, complete, due, XP total and level progress ends with
\* ActiveProfileRequired and leaves the five tables as they were.
C10_ActiveProfileRequired ==
    [][(calls' = calls + 1 /\ ActiveProfileIds = {})
       => /\ \A p \in Callers : pc'[p] = "complete_insert" => pc[p] = "complete_insert"
          /\ (pc' = pc /\ res'.op \in ProfileRequiredOps)
               => (res'.err = "ActiveProfileRequired" /\ store' = store)]_vars

\* the call was refused while the pointer named a deleted profile
C10_Witness ==
    /\ res.op \in ProfileRequiredOps
    /\ res.err = "ActiveProfileRequired"
    /\ \E s \in app_state :
         /\ s.active_profile_id # None
         /\ \A r \in profiles : r.id # s.active_profile_id

\* C11: with a profile active, archive(id) and complete(id, t) given the id
\* of a habit of another profile end exactly as they do given an id no habit
\* has: the report is HabitNotFound with nothing but the operation and its
\* arguments in it, whether the habit is active, archived or completed for the
\* period of t, and the five tables stay as they were.
C11_ForeignAsMissing ==
    [][(/\ Ended("archive_habit") \/ Ended("complete_habit")
        /\ ActiveProfileIds # {}
        /\ \A h \in habits : h.id = res'.id => h.profile_id \notin ActiveProfileIds)
       => /\ res' = [NoCall EXCEPT !.caller = Caller, !.op = res'.op, !.id = res'.id,
                                   !.when = res'.when, !.err = "HabitNotFound"]
          /\ store' = store]_vars

\* complete was refused as not found for a habit of another profile that is
\* archived and holds a completion for the period asked for
C11_Witness ==
    /\ res.op = "complete_habit"
    /\ res.err = "HabitNotFound"
    /\ ActiveProfileIds # {}
    /\ \E h \in habits :
         /\ h.id = res.id
         /\ h.profile_id \notin ActiveProfileIds
         /\ ~h.is_active
         /\ RowsFor(h.id, compute_period_key(res.when, h.periodicity)) # {}

\* the members of a sequence
Elems(seq) == {seq[i] : i \in 1..Len(seq)}

\* profile row r is the profile that was active when habit h was created: h
\* names its id, and r was there before h
Owns(r, h) == h.profile_id = r.id /\ r.created_at < h.created_at

\* C12: while a profile other than the one a habit was created under is
\* active (a profile created after that one was deleted included), list and
\* due never return the habit, and archive and complete given its id end with
\* HabitNotFound.
C12_OwnershipExclusive ==
    [][\A h \in habits : \A r \in profiles :
         (r.id \in ActiveProfileIds /\ ~Owns(r, h))
         => /\ (Ended("list_habits") \/ Ended("get_due_habits"))
                 => h.id \notin Elems(res'.ret)
            /\ ((Ended("archive_habit") \/ Ended("complete_habit")) /\ res'.id = h.id)
                 => res'.err = "HabitNotFound"]_vars

\* the events that reference a completion
EventsFor(events, completion_id) == {e \in events : e.completion_id = completion_id}

\* C13: every direct call award(profile_id, habit_id, completion_id) returns,
\* and leaves exactly one XPEvent referencing completion_id, with amount 1 and
\* reason HABIT_COMPLETION, whose id is the one returned; when such an event
\* was there before the call the table is left as it was, so a repeated call
\* returns the same event unchanged; when none was, the call adds that one row.
C13_AwardIdempotent ==
    [][Ended("award_habit_completion")
       => /\ res'.err = "ok"
          /\ Cardinality(EventsFor(xp_events', res'.id)) = 1
          /\ \A e \in EventsFor(xp_events', res'.id) :
               /\ res'.ret = <<e.id>>
               /\ e.amount = 1
               /\ e.reason = "HABIT_COMPLETION"
               /\ IF EventsFor(xp_events, res'.id) # {}
                  THEN xp_events' = xp_events
                  ELSE e \notin xp_events /\ xp_events' = xp_events \cup {e}]_vars

\* a repeated award, made with another profile and habit, returned the event
\* of the first award
C13_Witness ==
    /\ res.op = "award_habit_completion"
    /\ res.err = "ok"
    /\ \E e \in xp_events :
         /\ res.ret = <<e.id>>
         /\ e.completion_id = res.id
         /\ e.profile_id # res.profile_id
         /\ e.habit_id # res.habit_id

\* C14: no two XPEvent rows reference the same completion, in any state two
\* callers reach with the selects and commits of their award and complete
\* calls interleaved in any order.
C14_OneEventPerCompletion ==
    \A e1 \in xp_events : \A e2 \in xp_events :
        (e1.completion_id # None /\ e1.completion_id = e2.completion_id) => e1 = e2

\* two awards for one completion raced past their selects: one inserted, the
\* other was refused by the table
C14_Witness ==
    /\ res.op = "award_habit_completion"
    /\ res.err = "IntegrityError"
    /\ Cardinality(EventsFor(xp_events, res.id)) = 1
    /\ \E c \in completions : c.id = res.id

\* the step adds exactly one event, for completion cid of habit h, to the
\* active profile, with amount 1 and reason HABIT_COMPLETION
OneEventCreated(h, cid) ==
    \E e \in xp_events' :
        /\ e \notin xp_events
        /\ xp_events' = xp_events \cup {e}
        /\ e.completion_id = cid
        /\ e.habit_id = h
        /\ e.profile_id \in ActiveProfileIds
        /\ e.amount = 1
        /\ e.reason = "HABIT_COMPLETION"

\* every event the step adds has amount 1 and reason HABIT_COMPLETION
OnlyCompletionRewards ==
    \A e \in xp_events' \ xp_events : e.amount = 1 /\ e.reason = "HABIT_COMPLETION"

\* C15, as claimed: with an XP ledger configured every successful
\* complete(h) adds exactly one XPEvent, for the new completion, habit h and
\* the active profile, with amount 1 and reason HABIT_COMPLETION; and no step
\* adds an event with another amount or reason.
C15_Original ==
    [][/\ (Ended("complete_habit") /\ res'.err = "ok" /\ xp_service)
            => OneEventCreated(res'.id, res'.ret[1])
       /\ OnlyCompletionRewards]_vars

\* C15, amended: with an XP ledger configured every successful complete(h)
\* leaves exactly one XPEvent referencing the new completion; the call adds
\* it, for habit h and the active profile with amount 1 and reason
\* HABIT_COMPLETION, unless an event referenced that completion id before the
\* call (a direct award made with it), and then the table is left as it was;
\* and no step adds an event with another amount or reason.
C15_CompleteAwardsOnce ==
    [][/\ (Ended("complete_habit") /\ res'.err = "ok" /\ xp_service)
            => /\ \A c \in completions : c.id # res'.ret[1]
               /\ \E c \in completions' : c.id = res'.ret[1] /\ c.habit_id = res'.id
               /\ Cardinality(EventsFor(xp_events', res'.ret[1])) = 1
               /\ IF EventsFor(xp_events, res'.ret[1]) # {}
                  THEN xp_events' = xp_events
                  ELSE OneEventCreated(res'.id, res'.ret[1])
       /\ OnlyCompletionRewards]_vars

\* a second completion of the habit was rewarded with an event of its own
C15_Witness ==
    /\ xp_service
    /\ res.op = "complete_habit"
    /\ res.err = "ok"
    /\ res.ret = <<2>>
    /\ \E e \in xp_events :
         /\ e.completion_id = 2
         /\ e.habit_id = res.id
         /\ e.profile_id \in ActiveProfileIds
    /\ \E e \in xp_events : e.completion_id = 1

\* C16: with an XP ledger configured, no state of the store that another
\* caller can read holds a Completion without an XPEvent referencing it:
\* complete commits both or neither.
C16_CompleteAtomic ==
    xp_service => \A c \in completions : EventsFor(xp_events, c.id) # {}

\* two instants fall in one period of the cadence: the same calendar day, or
\* the same Monday-to-Sunday week (day 1 of the proleptic calendar is a Monday)
SamePeriod(t1, t2, periodicity) ==
    LET o1 == ToOrdinal(t1.year, t1.month, t1.day)
        o2 == ToOrdinal(t2.year, t2.month, t2.day)
    IN  IF periodicity = "DAILY" THEN o1 = o2
        ELSE (o1 - 1) \div 7 = (o2 - 1) \div 7

\* C17: with a profile active, due(when) returns, each once, exactly the
\* habits of that profile that are active and have no Completion whose key is
\* the period key of `when` for the habit's cadence; so a habit completed at
\* an instant of the same day (DAILY) or week (WEEKLY) as `when` is absent, a
\* habit with no completion in that period is present, and an archived habit
\* is never returned.
C17_DueExactly ==
    [][(Ended("get_due_habits") /\ ActiveProfileIds # {})
       => /\ res'.err = "ok"
          /\ Len(res'.ret) = Cardinality(Elems(res'.ret))
          /\ Elems(res'.ret) =
                {h.id : h \in {g \in habits :
                    /\ g.profile_id \in ActiveProfileIds
                    /\ g.is_active
                    /\ RowsFor(g.id, compute_period_key(res'.when, g.periodicity)) = {}}}
          /\ \A h \in habits :
               h.id \in Elems(res'.ret)
               <=> /\ h.profile_id \in ActiveProfileIds
                   /\ h.is_active
                   /\ \A c \in completions :
                        c.habit_id = h.id
                        => ~SamePeriod(c.completed_at, res'.when, h.periodicity)]_vars

\* a weekly habit completed on the Monday is not due on the Thursday of that
\* ISO week, in another calendar year
C17_Witness ==
    /\ res.op = "get_due_habits"
    /\ res.err = "ok"
    /\ \E h \in habits : \E c \in completions :
         /\ h.profile_id \in ActiveProfileIds
         /\ h.is_active
         /\ h.periodicity = "WEEKLY"
         /\ h.id \notin Elems(res.ret)
         /\ c.habit_id = h.id
         /\ c.completed_at.year # res.when.year

\* C18: with a profile active, list(active_only, cadence) returns exactly
\* the habits of that profile that are active when active_only is set and have
\* the cadence when one is given, in the order of their creation times and
\* each once, so never a habit of another profile; and neither list nor due
\* changes any table.
C18_ListExactly ==
    [][/\ (Ended("list_habits") /\ ActiveProfileIds # {})
            => /\ res'.err = "ok"
               /\ Elems(res'.ret) =
                     {h.id : h \in {g \in habits :
                         /\ g.profile_id \in ActiveProfileIds
                         /\ res'.active_only => g.is_active
                         /\ res'.periodicity # "" => g.periodicity = res'.periodicity}}
               /\ \A i \in 1..Len(res'.ret) : \A j \in 1..Len(res'.ret) :
                    i < j => \E h1 \in habits : \E h2 \in habits :
                               /\ h1.id = res'.ret[i]
                               /\ h2.id = res'.ret[j]
                               /\ h1.created_at < h2.created_at
       /\ (Ended("list_habits") \/ Ended("get_due_habits")) => store' = store]_vars

\* a list that returned a habit and left out an archived habit of the same
\* profile, or one of the other cadence
C18_Witness ==
    /\ res.op = "list_habits"
    /\ res.err = "ok"
    /\ res.ret # <<>>
    /\ \E h \in habits :
         /\ h.profile_id \in ActiveProfileIds
         /\ h.id \notin Elems(res.ret)

\* the pairs of a capital and its small letter
CasePairs == {{"a", "A"}, {"b", "B"}, {"r", "R"}}

IsLowercase(s) == \A i \in 1..Len(s) : s[i] \notin {"A", "B", "R"}

\* the same letters, whatever their case
SameLetters(s, t) ==
    /\ Len(s) = Len(t)
    /\ \A i \in 1..Len(s) : s[i] = t[i] \/ {s[i], t[i]} \in CasePairs

\* C19: create(username) fails with ProfileAlreadyExists, adding nothing, when
\* a stored username has the same letters whatever their case; otherwise it
\* adds one profile whose username is the one given in lowercase.  After every
\* step all stored usernames are lowercase and no two profiles have usernames
\* with the same letters.
C19_LowercaseUniqueUsernames ==
    [][/\ Ended("create_profile")
            => IF \E r \in profiles : SameLetters(r.username, res'.name)
               THEN res'.err = "ProfileAlreadyExists" /\ profiles' = profiles
               ELSE /\ res'.err = "ok"
                    /\ \E r \in profiles' :
                         /\ r \notin profiles
                         /\ profiles' = profiles \cup {r}
                         /\ res'.ret = <<r.id>>
                         /\ IsLowercase(r.username)
                         /\ SameLetters(r.username, res'.name)
       /\ \A r1 \in profiles' : \A r2 \in profiles' :
            /\ IsLowercase(r1.username)
            /\ SameLetters(r1.username, r2.username) => r1 = r2]_vars

\* a username in capitals was refused because its lowercase form is stored
C19_Witness ==
    /\ res.op = "create_profile"
    /\ res.err = "ProfileAlreadyExists"
    /\ ~IsLowercase(res.name)
    /\ \E r \in profiles : r.username # res.name /\ SameLetters(r.username, res.name)

\* C20: switch(username) fails with ProfileNotFound, the pointer record left
\* as it was, when no stored username has the letters of the one given
\* whatever their case; otherwise it returns that profile and leaves exactly
\* one pointer record, with id 1, pointing to it (created if there was none).
\* A get_active called right after a successful switch returns the profile
\* the switch returned.  Neither changes another table.
C20_SwitchSetsPointer ==
    [][/\ Ended("switch_active_profile")
            => /\ IF \A r \in profiles : ~SameLetters(r.username, res'.name)
                  THEN res'.err = "ProfileNotFound" /\ app_state' = app_state
                  ELSE /\ res'.err = "ok"
                       /\ \E r \in profiles :
                            /\ SameLetters(r.username, res'.name)
                            /\ res'.ret = <<r.id>>
                            /\ app_state' = {[id |-> 1, active_profile_id |-> r.id]}
               /\ <<profiles, habits, completions, xp_events>>'
                     = <<profiles, habits, completions, xp_events>>
       /\ (/\ Ended("get_active_profile")
           /\ res.op = "switch_active_profile"
           /\ res.err = "ok")
            => res'.err = "ok" /\ res'.ret = res.ret /\ store' = store]_vars

\* a username given in capitals made the profile stored under its lowercase
\* form, the second of two profiles, the active one
C20_Witness ==
    /\ res.op = "switch_active_profile"
    /\ res.err = "ok"
    /\ ~IsLowercase(res.name)
    /\ app_state = {[id |-> 1, active_profile_id |-> res.ret[1]]}
    /\ \E r \in profiles : r.id = res.ret[1] /\ r.id # 1

\* C21: after every step the pointer is unset or names a profile that is
\* stored; delete(username) of an unknown username fails with ProfileNotFound
\* and changes nothing; delete of a stored profile removes that one row and,
\* in the same step, clears the pointer when it named the profile and leaves
\* it as it was otherwise.
C21_PointerNeverDangles ==
    [][/\ Ended("delete_profile")
            => IF \A r \in profiles : ~SameLetters(r.username, res'.name)
               THEN res'.err = "ProfileNotFound" /\ store' = store
               ELSE /\ res'.err = "ok"
                    /\ \E r \in profiles :
                         /\ SameLetters(r.username, res'.name)
                         /\ profiles' = profiles \ {r}
                         /\ app_state' =
                              {IF s.active_profile_id = r.id
                               THEN [s EXCEPT !.active_profile_id = None]
                               ELSE s : s \in app_state}
                    /\ <<habits, completions, xp_events>>'
                          = <<habits, completions, xp_events>>
       /\ \A s \in app_state' :
            s.active_profile_id = None
            \/ \E r \in profiles' : r.id = s.active_profile_id]_vars

\* b = a + 1, digit by digit
Plus1(a, b) ==
    \/ /\ \A i \in 1..Len(a) : a[i] = 9
       /\ b = <<1>> \o [i \in 1..Len(a) |-> 0]
    \/ \E i \in 1..Len(a) :
         /\ a[i] < 9
         /\ \A j \in (i + 1)..Len(a) : a[j] = 9
         /\ b = [j \in 1..Len(a) |->
                   IF j < i THEN a[j] ELSE IF j = i THEN a[i] + 1 ELSE 0]

\* 10 * m + r
TenTimesPlus(m, r) == IF m = <<0>> THEN <<r>> ELSE m \o <<r>>

\* C22: for every total_xp >= 0 the level progress is (level, into, to_next)
\* with into = total_xp mod 10 in 0..9, to_next = 10 - into in 1..10 and
\* 10 * (level - 1) + into = total_xp, that is level = 1 + floor(total_xp / 10);
\* the level is 1 for 0..9, 2 for 10..19 and 3 for 20..29.
C22_LevelProgress ==
    [][Ended("compute_level_progress")
         => LET total_xp == res'.arg
                level == res'.ret[1]
                into == res'.ret[2]
                to_next == res'.ret[3]
                \* m is floor(total_xp / 10): the digits of total_xp but the last
            IN  /\ res'.err = "ok"
                /\ into \in 0..9 /\ into = total_xp[Len(total_xp)]
                /\ to_next \in 1..10 /\ to_next = 10 - into
                /\ LET m == IF Len(total_xp) = 1 THEN <<0>>
                             ELSE SubSeq(total_xp, 1, Len(total_xp) - 1)
                   IN  Plus1(m, level) /\ TenTimesPlus(m, into) = total_xp
                /\ Len(total_xp) <= 2
                     => level = <<1 + (IF Len(total_xp) = 1 THEN 0 ELSE total_xp[1])>>
                /\ store' = store]_vars

RECURSIVE AmountUpTo(_, _)
\* the amounts of the events with id 1..n, added up
AmountUpTo(events, n) ==
    IF n = 0 THEN 0
    ELSE AmountUpTo(events, n - 1)
         + (IF \E e \in events : e.id = n THEN (CHOOSE e \in events : e.id = n).amount ELSE 0)

\* the sum of amount over the events of one profile
TotalOf(events, profile_id) ==
    LET own == {e \in events : e.profile_id = profile_id}
    IN  AmountUpTo(own, Max({0} \cup {e.id : e \in own}))

\* C23: total_xp(profile_id) returns the sum of amount over exactly the
\* XPEvents whose profile_id is that profile, 0 when there are none, and
\* changes nothing; a successful complete leaves the total of every profile
\* other than the active one as it was.
C23_TotalPerProfile ==
    [][/\ Ended("get_total_xp")
            => /\ res'.err = "ok"
               /\ res'.ret = <<TotalOf(xp_events, res'.profile_id)>>
               /\ (\A e \in xp_events : e.profile_id # res'.profile_id) => res'.ret = <<0>>
               /\ store' = store
       /\ Ended("complete_habit")
            => \A q \in 1..(MaxProfileId + 1) :
                 q \notin ActiveProfileIds
                   => TotalOf(xp_events', q) = TotalOf(xp_events, q)]_vars

\* total_xp returned a positive total while the ledger also held events of
\* another profile
C23_Witness ==
    /\ res.op = "get_total_xp" /\ res.err = "ok"
    /\ res.ret[1] >= 1
    /\ \E e \in xp_events : e.profile_id # res.profile_id

\* the periods of two instants follow one another on the calendar: the next
\* day, or the next Monday-to-Sunday week
AdjacentPeriods(t1, t2, periodicity) ==
    LET o1 == ToOrdinal(t1.year, t1.month, t1.day)
        o2 == ToOrdinal(t2.year, t2.month, t2.day)
        w1 == (o1 - 1) \div 7
        w2 == (o2 - 1) \div 7
    IN  IF periodicity = "DAILY" THEN o1 - o2 \in {1, -1}
        ELSE w1 - w2 \in {1, -1}

\* C24: for each cadence and any two timestamps t1, t2 the keys of both
\* decode, and decode(encode(t1)) = decode(encode(t2)) exactly when t1 and t2
\* lie in the same period: the same calendar day (DAILY), the same ISO week
\* (WEEKLY), also when that week spans two calendar years.
C24_DecodeStableInPeriod ==
    [][Ended("period_ordinals")
         => /\ res'.err = "ok"
            /\ (res'.ret[1] = res'.ret[2])
                  <=> SamePeriod(res'.arg[1], res'.arg[2], res'.periodicity)]_vars

\* a December day and a January day of the next calendar year decoded to one
\* WEEKLY ordinal
C24_Witness ==
    /\ res.op = "period_ordinals" /\ res.err = "ok"
    /\ res.periodicity = "WEEKLY"
    /\ res.arg[1].year + 1 = res.arg[2].year
    /\ res.ret[1] = res.ret[2]

\* C25: the decoded ordinals of two valid keys of one cadence differ by
\* exactly step(cadence), 1 for DAILY and 7 for WEEKLY, exactly when their
\* periods are adjacent on the calendar, across month, year and ISO-year
\* boundaries too (W52 or W53 and W01 of the next year are adjacent).
C25_StepIffAdjacent ==
    [][Ended("period_ordinals") /\ res'.err = "ok"
         => /\ res'.ret[3] = (IF res'.periodicity = "DAILY" THEN 1 ELSE 7)
            /\ (res'.ret[1] - res'.ret[2] \in {res'.ret[3], -res'.ret[3]})
                  <=> AdjacentPeriods(res'.arg[1], res'.arg[2], res'.periodicity)]_vars

\* 2025-W52 and 2026-W01 decoded to ordinals one step apart
C25_Witness ==
    /\ res.op = "period_ordinals" /\ res.err = "ok"
    /\ res.pk = <<<<"2", "0", "2", "5", "-", "W", "5", "2">>,
                  <<"2", "0", "2", "6", "-", "W", "0", "1">>>>
    /\ res.ret[2] - res.ret[1] = res.ret[3]

\* the size of the largest run o, o + step, o + 2 step, ... inside S
LongestRun(S, step) ==
    IF S = {} THEN 0
    ELSE Max({n \in 1..Cardinality(S) :
                \E o \in S : \A k \in 0..(n - 1) : (o + k * step) \in S})

\* the completions of the call that are the habit's own, as a set
OwnCompletions(r) == {c \in Elems(r.arg) : c.habit_id = r.id}

\* the key decodes
ValidKey(r, c) == parse_period_key_to_ordinal(c.period_key, r.periodicity, r.extended).ok

\* the distinct ordinals the habit's own keys decode to
OwnOrdinals(r) ==
    {parse_period_key_to_ordinal(c.period_key, r.periodicity, r.extended).v :
        c \in {d \in OwnCompletions(r) : ValidKey(r, d)}}

\* C26: longest_run for a habit is the size of the largest subset of the
\* habit's distinct decoded ordinals that forms a run with difference
\* step(cadence): 0 for no completions, 1 for a single period, the maximum over
\* separate runs; the order of the list, repeated keys and completions of
\* other habits do not enter.
C26_LongestRun ==
    [][Ended("longest_streak_for_habit")
         => /\ res'.ret = <<LongestRun(OwnOrdinals(res'),
                                       IF res'.periodicity = "DAILY" THEN 1 ELSE 7)>>
            /\ OwnCompletions(res') = {} => res'.ret = <<0>>
            /\ Cardinality(OwnOrdinals(res')) = 1 => res'.ret = <<1>>]_vars

\* three periods of the habit, given latest first, two of them adjacent: the
\* run is 2
C26_Witness ==
    /\ res.op = "longest_streak_for_habit"
    /\ Cardinality(OwnOrdinals(res)) = 3
    /\ \A c \in Elems(res.arg) : ValidKey(res, c)
    /\ parse_period_key_to_ordinal(res.arg[1].period_key, res.periodicity, res.extended).v
         > parse_period_key_to_ordinal(res.arg[3].period_key, res.periodicity, res.extended).v
    /\ res.ret = <<2>>

\* C27: longest_run returns for every list of keys; keys that do not decode
\* are skipped: the result is the one for the list without them, and 0 when
\* no key of the habit decodes.
C27_InvalidKeysSkipped ==
    [][Ended("longest_streak_for_habit")
         => /\ res'.err = "ok"
            /\ res'.ret = <<longest_streak_for_habit(
                              HabitDTO(res'.id, <<"r">>, res'.periodicity),
                              SelectSeq(res'.arg, LAMBDA c : ValidKey(res', c)),
                              res'.extended)>>
            /\ (\A c \in OwnCompletions(res') : ~ValidKey(res', c)) => res'.ret = <<0>>]_vars

\* a list with a key that does not decode between two adjacent periods: 2
C27_Witness ==
    /\ res.op = "longest_streak_for_habit" /\ res.err = "ok"
    /\ Len(res.arg) >= 3
    /\ ~ValidKey(res, res.arg[2]) /\ res.arg[2].habit_id = res.id
    /\ res.ret = <<2>>

\* the longest run of habit h among the completions cs
RunOf(h, cs, extended) ==
    LET r == [arg |-> cs, id |-> h.id, periodicity |-> h.periodicity, extended |-> extended]
    IN  LongestRun(OwnOrdinals(r), IF h.periodicity = "DAILY" THEN 1 ELSE 7)

\* C28: best_across returns the largest longest_run over the habits given,
\* with the habit that reaches it; when several reach it, the one with the
\* lowest id, in whatever order the habits are listed.
C28_BestLowestId ==
    [][Ended("longest_streak_across_habits")
         => LET hs == Elems(res'.arg[1])
                run(h) == RunOf(h, res'.arg[2], res'.extended)
                best == Max({0} \cup {run(h) : h \in hs})
            IN  best > 0
                  => /\ res'.ret[1].length = best
                     /\ \E h \in hs :
                          /\ run(h) = best
                          /\ \A g \in hs : run(g) = best => h.id <= g.id
                          /\ res'.ret[1] = LongestStreakDTO(best, <<h.id>>, <<h.name>>,
                                                            <<h.periodicity>>)]_vars

\* two habits tie at a run of 2 or more, the one with the higher id is
\* listed first, and the one with the lower id is returned
C28_Witness ==
    /\ res.op = "longest_streak_across_habits"
    /\ res.ret[1].length >= 2
    /\ \E i \in 1..Len(res.arg[1]), j \in 1..Len(res.arg[1]) :
         /\ i < j
         /\ res.arg[1][i].id > res.arg[1][j].id
         /\ RunOf(res.arg[1][i], res.arg[2], res.extended) = res.ret[1].length
         /\ RunOf(res.arg[1][j], res.arg[2], res.extended) = res.ret[1].length
         /\ res.ret[1].habit_id = <<res.arg[1][j].id>>

\* C29: best_across returns the empty result, length 0 with habit_id,
\* habit_name and cadence unset, exactly when no habits are given or none has
\* a positive longest_run; otherwise the length is positive and the three
\* fields are those of one of the habits given.
C29_EmptyExactly ==
    [][Ended("longest_streak_across_habits")
         => LET hs == Elems(res'.arg[1])
                none == \A h \in hs : RunOf(h, res'.arg[2], res'.extended) = 0
                dto == res'.ret[1]
            IN  /\ res'.err = "ok"
                /\ none <=> dto = LongestStreakDTO(0, <<>>, <<>>, <<>>)
                /\ ~none
                     => /\ dto.length > 0
                        /\ \E h \in hs :
                             /\ dto.habit_id = <<h.id>>
                             /\ dto.habit_name = <<h.name>>
                             /\ dto.periodicity = <<h.periodicity>>]_vars

\* habits and completions were given, none of the habits has a completion
\* that counts, and the result is empty
C29_Witness ==
    /\ res.op = "longest_streak_across_habits"
    /\ res.arg[1] # <<>> /\ res.arg[2] # <<>>
    /\ res.ret[1] = LongestStreakDTO(0, <<>>, <<>>, <<>>)

\* C30: no step changes the cadence, the owner (profile_id) or the name of a
\* stored habit, and none removes a habit; the one change ever made to a
\* stored habit is archive(h) clearing is_active of habit h, and complete,
\* due, list and the profile operations leave the habit table as it was.
C30_HabitFrame ==
    [][/\ \A h \in habits :
            \E g \in habits' :
              /\ g.id = h.id
              /\ g.periodicity = h.periodicity
              /\ g.profile_id = h.profile_id
              /\ g.name = h.name
              /\ g # h => /\ Ended("archive_habit") /\ res'.err = "ok" /\ res'.id = h.id
                          /\ g = [h EXCEPT !.is_active = FALSE]
       /\ (\E op \in {"complete_habit", "get_due_habits", "list_habits", "create_profile",
                        "switch_active_profile", "delete_profile", "get_active_profile"} :
              Ended(op))
            => habits' = habits
       /\ Ended("archive_habit") => {g.id : g \in habits'} = {h.id : h \in habits}]_vars

\* archive(h) has cleared is_active of habit h, next to a second habit that
\* is still active
C30_Witness ==
    /\ res.op = "archive_habit" /\ res.err = "ok"
    /\ \E h \in habits : h.id = res.id /\ ~h.is_active
    /\ \E g \in habits : g.id # res.id /\ g.is_active

\* C31: Completions and XPEvents are append-only. No step removes or rewrites
\* a row of either table; a step that adds a Completion is a complete that
\* returned, for the habit and the period of that call; so a period once
\* completed for a habit stays completed, archive of its habit included.
C31_AppendOnly ==
    [][/\ completions \subseteq completions'
       /\ xp_events \subseteq xp_events'
       /\ \A c \in completions' \ completions :
            /\ Ended("complete_habit") /\ res'.err = "ok"
            /\ res'.ret = <<c.id>>
            /\ c.habit_id = res'.id /\ c.period_key = res'.pk
       /\ \A c \in completions :
            RowsFor(c.habit_id, c.period_key)' # {}]_vars

\* a habit with a completion and its reward was archived, and its owner
\* deleted: both rows are still stored
C31_Witness ==
    /\ res.op = "delete_profile" /\ res.err = "ok"
    /\ \E h \in habits :
         /\ ~h.is_active
         /\ \A r \in profiles : r.id # h.profile_id
         /\ \E c \in completions :
              c.habit_id = h.id /\ \E e \in xp_events : e.completion_id = c.id

\* the ordinal of the day a period starts with: the day itself, or the
\* Monday of its week
PeriodStart(t, periodicity) ==
    LET o == ToOrdinal(t.year, t.month, t.day)
    IN  IF periodicity = "DAILY" THEN o ELSE o - ((o - 1) % 7)

\* the shape YYYY-MM-DD, or YYYY-Www with a two-digit week
WellFormedKey(k, periodicity) ==
    LET digits(i, j) == \A n \in i..j : \E d \in 1..10 : DigitChars[d] = k[n]
    IN  IF periodicity = "DAILY"
        THEN Len(k) = 10 /\ k[5] = "-" /\ k[8] = "-"
             /\ digits(1, 4) /\ digits(6, 7) /\ digits(9, 10)
        ELSE Len(k) = 8 /\ k[5] = "-" /\ k[6] = "W" /\ digits(1, 4) /\ digits(7, 8)

\* C32: every period_key stored by complete has the shape of its habit's
\* cadence (YYYY-MM-DD; YYYY-Www with a zero-padded week) and decodes under
\* that cadence, with either date parser, to the start of the period of
\* completed_at: the week key carries the ISO week-numbering year.
C32_StoredKeysDecode ==
    \A c \in completions :
        \E h \in habits :
            /\ h.id = c.habit_id
            /\ WellFormedKey(c.period_key, h.periodicity)
            /\ \A extended \in BOOLEAN :
                 parse_period_key_to_ordinal(c.period_key, h.periodicity, extended)
                   = [ok |-> TRUE, v |-> PeriodStart(c.completed_at, h.periodicity)]

\* a weekly habit completed on Monday 2025-12-29 is stored under 2026-W01
C32_Witness ==
    \E c \in completions :
        /\ c.completed_at.year = 2025
        /\ c.period_key = <<"2", "0", "2", "6", "-", "W", "0", "1">>

\* C33: archive(h) of a habit that is already archived and belongs to the
\* active profile returns without an exception and leaves every table as it
\* was: the habit stays archived, and two archives leave the store of one.
C33_RearchiveNoOp ==
    [][(/\ Ended("archive_habit")
        /\ \E h \in habits :
             h.id = res'.id /\ ~h.is_active /\ h.profile_id \in ActiveProfileIds)
       => /\ res'.err = "ok"
          /\ store' = store
          /\ \A h \in habits' : h.id = res'.id => ~h.is_active]_vars

\* archive(h) returned for a habit that was archived before the call: a
\* younger active habit of the same profile carries its name, which create
\* accepts only once h is archived
C33_Witness ==
    /\ res.op = "archive_habit" /\ res.err = "ok"
    /\ \E h \in habits, g \in habits :
         /\ h.id = res.id /\ ~h.is_active
         /\ g.id # h.id /\ g.is_active
         /\ g.profile_id = h.profile_id /\ g.name = h.name
         /\ g.created_at > h.created_at

\* C34: with two callers running create for one active profile, their
\* duplicate queries and inserts interleaved in any order, no state of the
\* store holds two active habits of one profile under one name: of two calls
\* whose names trim to the same string at most one succeeds.
C34_ConcurrentCreateUnique ==
    \A h \in habits :
        h.is_active
          => Cardinality({g \in habits : /\ g.is_active
                                         /\ g.profile_id = h.profile_id
                                         /\ g.name = h.name}) = 1

\* C35: complete(h, when) returns exactly when a profile is active, habit h
\* is stored, belongs to that profile and is active, and no Completion
\* (h, encode(when, cadence of h)) is stored; completions of other habits and
\* of h in other periods do not enter, so h can be completed once in each
\* period.  When it returns, that Completion is the one row added.
C35_CompleteIff ==
    [][Ended("complete_habit")
         => LET can == \E h \in habits :
                         /\ h.id = res'.id
                         /\ h.profile_id \in ActiveProfileIds
                         /\ h.is_active
                         /\ RowsFor(h.id, compute_period_key(res'.when, h.periodicity)) = {}
            IN  /\ res'.err = "ok" <=> can
                /\ can => \E c \in completions' :
                            /\ completions' = completions \cup {c}
                            /\ c \notin completions
                            /\ c.habit_id = res'.id /\ c.completed_at = res'.when]_vars

\* complete returned for a habit that now has completions in two periods
C35_Witness ==
    /\ res.op = "complete_habit" /\ res.err = "ok"
    /\ \E c1 \in completions, c2 \in completions :
         /\ c1.habit_id = res.id /\ c2.habit_id = res.id
         /\ c1.period_key # c2.period_key

\* the exceptions of the habit domain, with the ValueError of the empty name
DomainErrors ==
    {"ActiveProfileRequired", "HabitNotFound", "HabitArchived",
     "HabitAlreadyCompletedForPeriod", "HabitAlreadyExists", "ValueError"}

\* C36: a call of create, archive or complete that fails with
\* ActiveProfileRequired, HabitNotFound, HabitArchived,
\* HabitAlreadyCompletedForPeriod, HabitAlreadyExists or the empty-name
\* ValueError leaves the profiles, the active-profile pointer, the habits, the
\* completions and the XP events as they were.
C36_FailedCallsChangeNothing ==
    [][(/\ \E op \in {"create_habit", "archive_habit", "complete_habit"} : Ended(op)
        /\ res'.err \in DomainErrors)
       => store' = store]_vars

\* archive refused as not found for an active habit of another profile,
\* which is still active
C36_Witness ==
    /\ res.op = "archive_habit"
    /\ res.err = "HabitNotFound"
    /\ \E h \in habits :
         /\ h.id = res.id
         /\ h.is_active
         /\ h.profile_id \notin ActiveProfileIds
         /\ \E q \in profiles : q.id = h.profile_id

\* C37: every stored Completion has a stored habit and the period key
\* compute_period_key gives for its completed_at and that habit's periodicity;
\* and at the step that adds a Completion its habit is stored, active and
\* owned by the profile that is active at that step.
C37_CompletionWellFounded ==
    [][/\ \A c \in completions' :
            \E h \in habits' :
                /\ h.id = c.habit_id
                /\ c.period_key = compute_period_key(c.completed_at, h.periodicity)
       /\ \A c \in completions' \ completions :
            \E h \in habits :
                /\ h.id = c.habit_id
                /\ h.is_active
                /\ h.profile_id \in ActiveProfileIds]_vars

\* C38: every XPEvent that complete adds references a Completion stored
\* before the step that adds the event; and every stored event references a
\* stored Completion, carries that completion's habit_id, and carries as
\* profile_id the profile_id of that habit.
C38_EventAfterCompletion ==
    [][/\ \A e \in xp_events' \ xp_events :
            \E c \in completions : c.id = e.completion_id
       /\ \A e \in xp_events' :
            \E c \in completions' : \E h \in habits' :
                /\ c.id = e.completion_id
                /\ e.habit_id = c.habit_id
                /\ h.id = c.habit_id
                /\ e.profile_id = h.profile_id]_vars

\* complete returned with its event written for the habit's profile although
\* that profile was no longer the active one when the award was made
C38_Witness ==
    /\ res.op = "complete_habit"
    /\ res.err = "ok"
    /\ \E e \in xp_events : \E h \in habits :
         /\ e.completion_id = res.ret[1]
         /\ h.id = e.habit_id
         /\ e.profile_id = h.profile_id
         /\ h.profile_id \notin ActiveProfileIds
         /\ pc[res.caller] = "idle"
         /\ \E q \in Callers : q # res.caller /\ pc[q] = "idle"

\* the completions made on the habits created under profile row r
CompletionsOf(r, hs, cs) ==
    {c \in cs : \E h \in hs : h.id = c.habit_id /\ Owns(r, h)}

\* C39: with an XP ledger configured, after every step that leaves no
\* complete call under way, total_xp of each stored profile is the number of
\* Completions on the habits created under that profile; and no step lowers
\* the total_xp or the level of a profile that stays stored.
C39_TotalIsCompletionCount ==
    [][/\ (xp_service' /\ \A p \in Callers : pc'[p] = "idle")
            => \A r \in profiles' :
                 get_total_xp(r.id)' = Cardinality(CompletionsOf(r, habits', completions'))
       /\ \A r \in profiles \cap profiles' :
            /\ get_total_xp(r.id)' >= get_total_xp(r.id)
            /\ ~BigLess(compute_level(Digits(get_total_xp(r.id)'))
                        , compute_level(Digits(get_total_xp(r.id))))]_vars

====
